---- MODULE Spec2Model ----
(***************************************************************************)
(* Generation Orchestrator of genstudio-palette: the ChatView component    *)
(* (src/src/components/views/ChatView.tsx) as a state machine.             *)
(*                                                                         *)
(* One action per event handler or asynchronous continuation.  React       *)
(* state setters called in one handler are batched, and the effects that   *)
(* depend on the changed state run before the next event is handled, so a  *)
(* handler together with the effects it triggers is one atomic step.       *)
(* Suspension points (await fetch, FileReader.onload) split a handler into *)
(* an issuing action and a resolving action.                               *)
(***************************************************************************)
EXTENDS Integers, Sequences, FiniteSets, TLC

(***************************************************************************)
(* Bounds of the model.                                                    *)
(***************************************************************************)
\* files the user picks over a whole run
MaxFiles == 2
\* files picked in one file-dialog selection
MaxSelect == 2
\* generation requests issued over a whole run
MaxRequests == 1
\* ExecutionPlan objects in the heap
MaxPlans == 3

\* plan build requests issued in a behaviour
MaxBuilds == 1

\* like calls outstanding at a time
MaxToggles == 2

\* fetchAssets calls outstanding at a time
MaxAssetFetches == 2

\* how many increment-download calls are outstanding at once, and how far a
\* download counter is driven
MaxDownloadCalls == 1
MaxDownloads == 3

\* like calls of the chat outstanding at a time in the transcript
\* specification
MaxChatLikes == 1

\* runs of the load effect of ProfileView over a whole run of the profile
\* specification
MaxLoads == 3

\* toggle-like calls of ProfileView outstanding at a time
MaxProfileLikes == 1

\* files the user picks over a whole run of the capacity specification
MaxPicked == 3

\* conversation-history fetches outstanding at the same time
MaxFetches == 2

(***************************************************************************)
(* Value domains.                                                          *)
(***************************************************************************)
None == "none"

GenerationMode == {"auto", "text", "image", "video", "plan"}

VideoSubMode == {"text_to_video", "frames_to_video", "references_to_video", "extend_video"}

VideoModel ==
  {"veo-2.0-generate-001", "veo-3.0-generate-001", "veo-3.0-fast-generate-001",
   "veo-3.1-generate-preview", "veo-3.1-fast-generate-preview"}

AspectRatio == {"16:9", "9:16"}

Resolution == {"720p", "1080p"}

\* the models the settings dialog is exercised with: one 3.0 and one 3.1
\* model next to the initial veo-3.1-fast-generate-preview
ModelChoices == {"veo-3.0-generate-001", "veo-3.1-generate-preview"}

\* conversations known to the backend
Convs == {"cA", "cB"}

\* what the user can type: nothing, blanks only, a prompt
TypedInputs == {"", " ", "hello"}

quickPrompts ==
  << [text |-> "A futuristic city skyline at sunset", mode |-> "image"],
     [text |-> "Explain quantum computing in simple terms", mode |-> "text"],
     [text |-> "A cat playing with a ball of yarn", mode |-> "video"],
     [text |-> "Abstract geometric pattern in blue and gold", mode |-> "auto"] >>

\* String.prototype.trim on the inputs of the model: blanks only trims to ""
Trim(s) == IF s = " " THEN "" ELSE s

isVeo31Model(model) ==
  model = "veo-3.1-generate-preview" \/ model = "veo-3.1-fast-generate-preview"

supportsAvatars(model) == isVeo31Model(model)

(***************************************************************************)
(* Sequence helpers.                                                       *)
(***************************************************************************)
RECURSIVE SeqFilterOut(_, _)
\* Array.prototype.filter((img) => img.id !== id)
SeqFilterOut(s, id) ==
  IF s = <<>> THEN <<>>
  ELSE IF Head(s).id = id THEN SeqFilterOut(Tail(s), id)
       ELSE <<Head(s)>> \o SeqFilterOut(Tail(s), id)

RemoveAt(s, i) == SubSeq(s, 1, i - 1) \o SubSeq(s, i + 1, Len(s))

Range(s) == {s[i] : i \in 1..Len(s)}

(***************************************************************************)
(* The component's state.                                                  *)
(***************************************************************************)
VARIABLES
  chatId,            \* prop: the active conversation, None for a new chat
  messages,          \* the transcript
  sessionCost,       \* <<>> (null) or <<cost>>
  loading,           \* history fetch in progress
  fetches,           \* outstanding fetchConversation calls, by conversation
  mode,
  videoSubMode,
  videoParams,
  uploadedImages,    \* staged media
  extendVideoUri,    \* pending extend target, None when unset
  reads,             \* FileReader reads started and not yet loaded
  nextFile,          \* number of the next picked file (attachment order)
  inputValue,
  isGenerating,
  currentExecutionPlan, \* <<>> (null) or <<plan>>
  selectedAvatar,    \* None or an avatar id
  sendAvatar,        \* the selectedAvatar the current handleSendMessage closes over
  buildAvatar,       \* the selectedAvatar the current handleBuildPlan closes over
  requests,          \* the generation requests issued and not yet answered
  issued,            \* number of generation requests issued so far
  newChatCalls,      \* arguments of the onNewChat calls made, in order
  toast,             \* title of the notification the last step raised, None if none
  lastExtend,        \* uri given to the most recent handleExtendVideo call
  planObjects,       \* the ExecutionPlan objects of the heap, by reference
  editedPlan,        \* <<>> (null) or <<reference of the plan under edit>>
  editPlanModalOpen,
  buildRequests,     \* the plan build requests issued and not yet answered
  built,             \* number of plan build requests issued so far
  serverLog,         \* backend: the messages stored per conversation by generation
  assets,            \* AssetsView: the asset list
  assetsLoading,     \* AssetsView: loading flag
  assetFetches,      \* AssetsView: the outstanding fetchAssets calls, by cause
  toggles,           \* like calls issued and not yet answered, by view and asset
  downloadCalls,     \* AssetsView: increment-download calls not yet answered
  assetsChanged,     \* <<detail>> of the assets:changed event dispatched by the
                     \* latest step of an asset handler, <<>> if it dispatched none
  currentView,       \* AppShell: the one view that is mounted
  serverAssets,      \* backend: the user's asset collection
  profileAssets,     \* ProfileView: the asset list (assets)
  profileLoading,    \* ProfileView: loading flag
  profileError,      \* ProfileView: error, None or a message
  retryKey,          \* ProfileView: retryKey
  loads,             \* ProfileView: the runs of the load effect, in order;
                     \* outcome is None while the run's load() is in flight
  profileLikes       \* ProfileView: asset ids of the toggle-like calls not
                     \* yet answered

convVars == <<chatId, messages, sessionCost, loading, fetches>>
modeVars == <<mode, videoSubMode, videoParams>>
mediaVars == <<uploadedImages, extendVideoUri, reads, nextFile>>
genVars == <<inputValue, isGenerating, currentExecutionPlan, selectedAvatar>>
netVars == <<requests, issued, newChatCalls>>
obsVars == <<lastExtend>>
closureVars == <<sendAvatar, buildAvatar>>
profileVars == <<profileAssets, profileLoading, profileError, retryKey, loads,
                 profileLikes>>
planVars == <<planObjects, editedPlan, editPlanModalOpen, buildRequests, built>>
serverVars == <<serverLog, serverAssets>>
galleryVars == <<assets, assetsLoading, assetFetches, toggles, currentView,
                 downloadCalls, assetsChanged>>

vars == <<convVars, modeVars, mediaVars, genVars, netVars, obsVars, toast,
          planVars, serverVars, galleryVars, closureVars, profileVars>>


(***************************************************************************)
(* Data the backend serves.  The backend is an external collaborator: its  *)
(* answers are inputs, drawn from the small sets below.                    *)
(***************************************************************************)
\* an asset as the backend sends it; liked may be missing (None)
ServerAsset(id, type, uri, liked) ==
  [id |-> id, type |-> type, uri |-> uri, liked |-> liked]

ServerMessage(id, role, content, assetSeq) ==
  [id |-> id, role |-> role, content |-> content, assets |-> assetSeq]

\* GET conversations/{id}: the stored messages of each conversation
ServerHistory(cid) ==
  IF cid = "cA"
  THEN << ServerMessage(<<"hA", 1>>, "assistant", "clip of A",
            << ServerAsset(<<"asA", 1>>, "video", "uri-A", "true") >>) >>
  ELSE << ServerMessage(<<"hB", 1>>, "user", "question of B", <<>>),
          ServerMessage(<<"hB", 2>>, "assistant", "answer of B",
            << ServerAsset(<<"asB", 1>>, "image", None, None) >>) >>

Cost(n) == [total_cost |-> n, total_tokens |-> 10 * n, currency |-> "USD"]

\* GET conversations/{id}: session_cost, present for cA only
ServerSessionCost(cid) == IF cid = "cA" THEN << Cost(1) >> ELSE <<>>

\* a Scene of an ExecutionPlan; model, aspect_ratio and resolution are
\* optional, here absent (None)
Scene(id, sceneMode, sceneModel, deps) ==
  [id |-> id, description |-> "d", prompt |-> "p", duration_hint |-> "5s",
   mode |-> sceneMode, model |-> sceneModel, aspect_ratio |-> None, resolution |-> None,
   dependencies |-> deps]

\* a three-scene plan as returned by plan generation
ProposedPlan ==
  [scenes |->
     << Scene("scene_1", "text_to_video", None, <<>>),
        Scene("scene_2", "frames_to_video", "veo-3.1-generate-preview", <<"scene_1">>),
        Scene("scene_3", "extend_video", "veo-3.0-generate-001", <<"scene_2">>) >>,
   orchestration |->
     [parallel_groups |-> << <<"scene_1">> >>,
      sequential_chains |-> << <<"scene_1", "scene_2", "scene_3">> >>],
   script_hash |-> "hash-1"]

\* POST generate-unified: the successful answers to request number n
Responses(n, req) ==
  { [conversation_id |-> cid,
     message |-> ServerMessage(<<"a", n>>, "assistant", "reply", assetSeq),
     execution_plan |-> plan,
     scene_results |-> <<>>,
     session_cost |-> cost] :
      cid \in Convs \cup {None},
      assetSeq \in
        IF req.mode \in {"video", "auto"}
        THEN { <<>>, << ServerAsset(<<"as", n>>, "video", "uri-new", None) >> }
        ELSE { <<>> },
      plan \in
        IF req.mode \in {"plan", "auto"} THEN { <<>>, <<ProposedPlan>> } ELSE { <<>> },
      cost \in { <<>>, << Cost(2) >> } }

\* the outcome of one scene of a plan build
SceneResult(id, ok) ==
  [scene_id |-> id, success |-> ok,
   video_uri |-> IF ok THEN "uri-scene" ELSE None,
   error |-> IF ok THEN None ELSE "scene failed"]

\* POST generate-unified with an execution_plan: the successful answers to
\* build request number k; one outcome per scene of the submitted plan, in
\* plan order, each a success or a failure
BuildResponses(k, req) ==
  LET scenes == req.execution_plan.scenes IN
  { [conversation_id |-> cid,
     message |-> ServerMessage(<<"b", k>>, "assistant", "plan executed", <<>>),
     execution_plan |-> << req.execution_plan >>,
     scene_results |-> [i \in 1..Len(scenes) |-> SceneResult(scenes[i].id, ok[i])],
     session_cost |-> cost] :
      cid \in Convs \cup {None},
      ok \in [1..Len(scenes) -> BOOLEAN],
      cost \in { <<>>, << Cost(3) >> } }

\* an asset of the user's collection as the backend lists it
CollectionAsset(id, type, liked, downloads) ==
  [id |-> id, type |-> type, liked |-> liked, downloads |-> downloads]

\* GET assets: the user's collection before any like of the session; the
\* video of conversation cA is in it, and an image of an earlier session
ServerCollection ==
  << CollectionAsset(<<"asA", 1>>, "video", "true", 0),
     CollectionAsset(<<"g", 1>>, "image", "true", 2) >>

\* a message as the backend stores it in a conversation
StoredMessage(msg, plan, results) ==
  [message |-> msg, execution_plan |-> plan, scene_results |-> results]

\* GET conversations/{id}: the stored messages, those of generation included
ServerEntries(cid) ==
  [i \in 1..Len(ServerHistory(cid)) |->
     StoredMessage(ServerHistory(cid)[i], <<>>, <<>>)] \o serverLog[cid]

\* what the backend stores for an answered generation request: the prompt
\* as a user message, then the assistant message of the response
StoredExchange(tag, req, data) ==
  << StoredMessage(ServerMessage(<<tag, req.n>>, "user", req.prompt, <<>>), <<>>, <<>>),
     StoredMessage(data.message, data.execution_plan, data.scene_results) >>

\* the conversation an answered request was stored in, None when the
\* response names none and the request had none
StoredIn(req, data) ==
  IF data.conversation_id # None THEN data.conversation_id ELSE req.conversation_id

(***************************************************************************)
(* Parsing of backend data into transcript messages.                       *)
(***************************************************************************)
\* JavaScript !!v on a liked field
Truthy(v) == v = "true"

ParseAsset(a) ==
  [id |-> a.id, type |-> a.type, uri |-> a.uri, liked |-> Truthy(a.liked)]

ParseAssets(as) == [i \in 1..Len(as) |-> ParseAsset(as[i])]

\* the Message built from a backend message and the response around it;
\* plan is <<>> or the reference of the parsed ExecutionPlan object
ParseMessage(m, plan, results) ==
  [id |-> m.id,
   type |-> IF m.role = "user" THEN "user" ELSE "assistant",
   content |-> m.content,
   assets |-> ParseAssets(m.assets),
   execution_plan |-> plan,
   scene_results |-> results]

ParseHistory(ms) == [i \in 1..Len(ms) |-> ParseMessage(ms[i], <<>>, <<>>)]

\* the plans of stored messages, in message order
RECURSIVE PlansOf(_)
PlansOf(es) ==
  IF es = <<>> THEN <<>> ELSE Head(es).execution_plan \o PlansOf(Tail(es))

\* conv.messages parsed; each execution_plan of the response is a new
\* object, placed in the heap after the base objects already there
ParseStored(es, base) ==
  [i \in 1..Len(es) |->
     ParseMessage(es[i].message,
                  IF es[i].execution_plan = <<>> THEN <<>>
                  ELSE << base + Len(PlansOf(SubSeq(es, 1, i))) >>,
                  es[i].scene_results)]

WelcomeMessage ==
  [id |-> <<"w", 1>>, type |-> "assistant", content |-> "Hello!",
   assets |-> <<>>, execution_plan |-> <<>>, scene_results |-> <<>>]

\* messages.flatMap((m) => m.assets ?? [])
RECURSIVE AllAssets(_)
AllAssets(ms) ==
  IF ms = <<>> THEN <<>> ELSE Head(ms).assets \o AllAssets(Tail(ms))


(***************************************************************************)
(* Staged media.  A picked file is numbered in attachment order (nextFile);*)
(* its number stands for its content, so data = the file's number.  A      *)
(* pending read holds the file and the label its onload callback will      *)
(* give it, a function of the mode, videoSubMode and uploadedImages.length *)
(* its closure captured at selection time.                                 *)
(***************************************************************************)
\* `Reference ${n}`
RefLabel(n) ==
  << "Reference 1", "Reference 2", "Reference 3", "Reference 4", "Reference 5",
     "Reference 6", "Reference 7", "Reference 8" >>[n]

\* the label the onload callback computes from the values its closure captured
LabelFor(m, s, staged) ==
  IF m = "video" /\ s = "frames_to_video"
  THEN (IF staged = 0 THEN "Start Frame" ELSE "End Frame")
  ELSE IF m = "video" /\ s = "references_to_video"
       THEN RefLabel(staged + 1)
       ELSE ""

\* { mime_type: img.mime_type, data: img.data }
ImagePayload(img) == [mime_type |-> img.mime_type, data |-> img.data]

ImagePayloads(ups) == [i \in 1..Len(ups) |-> ImagePayload(ups[i])]

(***************************************************************************)
(* useEffect[videoParams.model, mode, videoSubMode]: a sub-mode the model  *)
(* does not support is reset.  The effect runs after every render in which *)
(* one of its dependencies changed, so every action that sets mode,        *)
(* sub-mode or model ends with it (CommitModeState).                       *)
(***************************************************************************)
\* mutant for C28: the effect never resets the sub-mode
SubModeResetNever(m, s, vp) == FALSE

\* mutant for C4: the effect forgets references_to_video
SubModeResetFramesOnly(m, s, vp) ==
  /\ m = "video"
  /\ ~isVeo31Model(vp.model)
  /\ s = "frames_to_video"

SubModeReset(m, s, vp) ==
  /\ m = "video"
  /\ ~isVeo31Model(vp.model)
  /\ (s = "frames_to_video" \/ s = "references_to_video")

\* m, s, vp, ups, t: the values the handler has set
CommitModeState(m, s, vp, ups, t) ==
  LET reset == SubModeReset(m, s, vp) IN
  /\ mode' = m
  /\ videoSubMode' = IF reset THEN "text_to_video" ELSE s
  /\ videoParams' = vp
  /\ uploadedImages' = IF reset THEN <<>> ELSE ups
  /\ toast' = IF reset THEN "Mode Changed" ELSE t

(***************************************************************************)
(* The memoized handlers.  useCallback returns the function of an earlier  *)
(* render until one of its dependencies has changed, and that function     *)
(* closes over the state of the render that created it.  handleSendMessage *)
(* lists every state it reads but selectedAvatar, handleBuildPlan lists    *)
(* chatId only (onNewChat and toast do not change), so the selectedAvatar  *)
(* they read is the one of the render that last re-created them.           *)
(***************************************************************************)
\* the state handleSendMessage depends on
SendDeps ==
  <<inputValue, isGenerating, chatId, mode, videoSubMode, videoParams,
    uploadedImages, extendVideoUri>>

\* The render that follows a step.  newUploads: the step has called
\* setUploadedImages with a new array, which differs from the old by
\* identity also when both are empty.
Rerender(newUploads) ==
  /\ sendAvatar' = IF newUploads \/ SendDeps' # SendDeps
                   THEN selectedAvatar' ELSE sendAvatar
  /\ buildAvatar' = IF chatId' # chatId THEN selectedAvatar' ELSE buildAvatar

(***************************************************************************)
(* Mode Resolver and Media Staging handlers.                               *)
(***************************************************************************)
\* the sub-modes the mode menu offers under the current model
MenuSubModes ==
  {"text_to_video"} \cup
    (IF isVeo31Model(videoParams.model)
     THEN {"frames_to_video", "references_to_video"} ELSE {})

handleModeChange(newMode, subMode) ==
  /\ \/ newMode = "video" /\ subMode \in MenuSubModes
     \/ newMode # "video" /\ subMode = None
  /\ CommitModeState(newMode,
                     IF newMode = "video" /\ subMode # None THEN subMode ELSE videoSubMode,
                     videoParams, <<>>, None)
  /\ extendVideoUri' = None
  /\ UNCHANGED <<convVars, reads, nextFile, genVars, netVars, lastExtend,
                 planVars, serverVars, galleryVars>>
  /\ Rerender(TRUE)
  /\ UNCHANGED profileVars

\* a quick prompt button: setInputValue(prompt.text); setMode(prompt.mode)
QuickPrompt(i) ==
  /\ Len(messages) = 1
  /\ messages[1].type = "assistant"
  /\ inputValue' = quickPrompts[i].text
  /\ CommitModeState(quickPrompts[i].mode, videoSubMode, videoParams,
                     uploadedImages, None)
  /\ UNCHANGED <<convVars, extendVideoUri, reads, nextFile, isGenerating,
                 currentExecutionPlan, selectedAvatar, netVars, lastExtend,
                 planVars, serverVars, galleryVars>>
  /\ Rerender(FALSE)
  /\ UNCHANGED profileVars

\* the avatars the avatar modal lists
Avatars == {"av-1"}

\* the Select Avatar button is rendered: not in text mode, and in video mode
\* only under a model that supports avatars
AvatarButtonShown ==
  mode # "text" /\ (mode # "video" \/ supportsAvatars(videoParams.model))

\* the avatar modal, opened by the Select Avatar button: a click on avatar a
SelectAvatar(a) ==
  /\ AvatarButtonShown
  /\ selectedAvatar' = a
  /\ toast' = None
  /\ UNCHANGED <<convVars, modeVars, mediaVars, inputValue, isGenerating,
                 currentExecutionPlan, netVars, obsVars, planVars, serverVars,
                 galleryVars>>
  /\ Rerender(FALSE)
  /\ UNCHANGED profileVars

\* the X of the selected avatar's chip (shown outside text mode)
ClearAvatar ==
  /\ selectedAvatar # None
  /\ mode # "text"
  /\ selectedAvatar' = None
  /\ toast' = None
  /\ UNCHANGED <<convVars, modeVars, mediaVars, inputValue, isGenerating,
                 currentExecutionPlan, netVars, obsVars, planVars, serverVars,
                 galleryVars>>
  /\ Rerender(FALSE)
  /\ UNCHANGED profileVars

\* the uris of the assets that show an Extend button
ExtendableUris ==
  IF loading THEN {}
  ELSE {a.uri : a \in {x \in Range(AllAssets(messages)) : x.type = "video" /\ x.uri # None}}

handleExtendVideo(videoUri) ==
  /\ videoUri \in ExtendableUris
  /\ CommitModeState("video", "extend_video", videoParams, <<>>, "Extend Video Mode")
  /\ extendVideoUri' = videoUri
  /\ lastExtend' = videoUri
  /\ UNCHANGED <<convVars, reads, nextFile, genVars, netVars,
                 planVars, serverVars, galleryVars>>
  /\ Rerender(TRUE)
  /\ UNCHANGED profileVars

\* the model Select of the video settings dialog (shown in video mode)
SetModel(v) ==
  /\ mode = "video"
  /\ v # videoParams.model
  /\ CommitModeState(mode, videoSubMode, [videoParams EXCEPT !.model = v],
                     uploadedImages, None)
  /\ UNCHANGED <<convVars, extendVideoUri, reads, nextFile, genVars, netVars, lastExtend,
                 planVars, serverVars, galleryVars>>
  /\ Rerender(FALSE)
  /\ UNCHANGED profileVars

SetAspectRatio(v) ==
  /\ mode = "video"
  /\ v # videoParams.aspect_ratio
  /\ videoParams' = [videoParams EXCEPT !.aspect_ratio = v]
  /\ toast' = None
  /\ UNCHANGED <<convVars, mode, videoSubMode, mediaVars, genVars, netVars, obsVars,
                 planVars, serverVars, galleryVars>>
  /\ Rerender(FALSE)
  /\ UNCHANGED profileVars

SetResolution(v) ==
  /\ mode = "video"
  /\ videoSubMode # "extend_video"
  /\ v # videoParams.resolution
  /\ videoParams' = [videoParams EXCEPT !.resolution = v]
  /\ toast' = None
  /\ UNCHANGED <<convVars, mode, videoSubMode, mediaVars, genVars, netVars, obsVars,
                 planVars, serverVars, galleryVars>>
  /\ Rerender(FALSE)
  /\ UNCHANGED profileVars

\* files: the picked files in order, TRUE for an image file
handleFileSelect(files) ==
  LET n == Len(files)
      multiple == mode = "video" /\
                  (videoSubMode = "references_to_video" \/ videoSubMode = "frames_to_video")
      maxFiles == IF mode = "video" /\ videoSubMode = "references_to_video" THEN 5 ELSE 2
  IN /\ ~isGenerating
     /\ ~(mode = "video" /\ videoSubMode = "extend_video")
     /\ n >= 1
     /\ multiple \/ n = 1
     /\ IF Len(uploadedImages) + n > maxFiles
        THEN /\ toast' = "Too many images"
             /\ UNCHANGED <<reads, nextFile>>
        ELSE /\ reads' = reads \cup
                  { [file |-> nextFile + i - 1,
                     label |-> LabelFor(mode, videoSubMode, Len(uploadedImages))] :
                    i \in {j \in 1..n : files[j]} }
             /\ nextFile' = nextFile + n
             /\ toast' = IF \E j \in 1..n : ~files[j] THEN "Invalid file" ELSE None
     /\ UNCHANGED <<convVars, modeVars, uploadedImages, extendVideoUri, genVars,
                    netVars, lastExtend,
                 planVars, serverVars, galleryVars>>
  /\ Rerender(FALSE)
  /\ UNCHANGED profileVars

\* FileReader.onload of one pending read
ReadLoaded(r) ==
  /\ r \in reads
  /\ uploadedImages' = Append(uploadedImages,
       [id |-> r.file, mime_type |-> "image/png", data |-> r.file,
        label |-> r.label])
  /\ reads' = reads \ {r}
  /\ toast' = None
  /\ UNCHANGED <<convVars, modeVars, extendVideoUri, nextFile, genVars, netVars, obsVars,
                 planVars, serverVars, galleryVars>>
  /\ Rerender(TRUE)
  /\ UNCHANGED profileVars

removeUploadedImage(id) ==
  /\ \E i \in 1..Len(uploadedImages) : uploadedImages[i].id = id
  /\ uploadedImages' = SeqFilterOut(uploadedImages, id)
  /\ toast' = None
  /\ UNCHANGED <<convVars, modeVars, extendVideoUri, reads, nextFile, genVars,
                 netVars, obsVars,
                 planVars, serverVars, galleryVars>>
  /\ Rerender(TRUE)
  /\ UNCHANGED profileVars


(***************************************************************************)
(* Conversation Transcript: loading a conversation's history.              *)
(***************************************************************************)
\* The body of useEffect[chatId], run when the prop has become c.  msgs and
\* cost are the values the step has set before the effect runs.
ChatIdEffect(c, msgs, cost) ==
  IF c # None
  THEN /\ messages' = msgs
       /\ sessionCost' = cost
       /\ loading' = TRUE
       /\ fetches' = Append(fetches, c)
  ELSE /\ messages' = << WelcomeMessage >>
       /\ sessionCost' = <<>>
       /\ UNCHANGED <<loading, fetches>>

\* the parent renders the view with another conversation (or none)
SwitchChat(c) ==
  /\ c # chatId
  /\ c # None => Len(fetches) < MaxFetches
  /\ chatId' = c
  /\ ChatIdEffect(c, messages, sessionCost)
  /\ toast' = None
  /\ UNCHANGED <<modeVars, mediaVars, genVars, netVars, obsVars,
                 planVars, serverVars, galleryVars>>
  /\ Rerender(FALSE)
  /\ UNCHANGED profileVars

\* the continuation of fetchConversation(cid) after await fetch, for the
\* i-th outstanding fetch; outcome: "ok", "http_error" (!res.ok), "throw"
fetchConversationResolved(i, outcome) ==
  LET cid == fetches[i] IN
  /\ i \in 1..Len(fetches)
  /\ fetches' = RemoveAt(fetches, i)
  /\ loading' = FALSE
  /\ IF outcome = "ok"
     THEN /\ messages' = ParseStored(ServerEntries(cid), Len(planObjects))
          /\ planObjects' = planObjects \o PlansOf(ServerEntries(cid))
          /\ sessionCost' =
               IF ServerSessionCost(cid) # <<>> THEN ServerSessionCost(cid) ELSE sessionCost
     ELSE /\ messages' = <<>>
          /\ UNCHANGED <<sessionCost, planObjects>>
  /\ toast' = None
  /\ UNCHANGED <<chatId, modeVars, mediaVars, genVars, netVars, obsVars,
                 editedPlan, editPlanModalOpen, buildRequests, built,
                 serverVars, galleryVars>>
  /\ Rerender(FALSE)
  /\ UNCHANGED profileVars

(***************************************************************************)
(* Orchestrator: handleSendMessage.                                        *)
(***************************************************************************)
SetInputValue(v) ==
  /\ ~isGenerating
  /\ v # inputValue
  /\ inputValue' = v
  /\ toast' = None
  /\ UNCHANGED <<convVars, modeVars, mediaVars, isGenerating, currentExecutionPlan,
                 selectedAvatar, netVars, obsVars,
                 planVars, serverVars, galleryVars>>
  /\ Rerender(FALSE)
  /\ UNCHANGED profileVars

\* mutant for C5: the frames check only rejects an empty staging area
ValidationErrorFramesEmpty ==
  IF mode = "video" /\ videoSubMode = "frames_to_video" /\ Len(uploadedImages) = 0
  THEN "Missing frames"
  ELSE IF mode = "video" /\ videoSubMode = "references_to_video" /\ Len(uploadedImages) = 0
  THEN "Missing references"
  ELSE IF mode = "video" /\ videoSubMode = "extend_video" /\ extendVideoUri = None
  THEN "No video to extend"
  ELSE None

\* mutant for C8: the extend check is missing
ValidationErrorNoExtend ==
  IF mode = "video" /\ videoSubMode = "frames_to_video" /\ Len(uploadedImages) # 2
  THEN "Missing frames"
  ELSE IF mode = "video" /\ videoSubMode = "references_to_video" /\ Len(uploadedImages) = 0
  THEN "Missing references"
  ELSE None

\* the toast of the validation that rejects the submit, None when it passes
ValidationError ==
  IF mode = "video" /\ videoSubMode = "frames_to_video" /\ Len(uploadedImages) # 2
  THEN "Missing frames"
  ELSE IF mode = "video" /\ videoSubMode = "references_to_video" /\ Len(uploadedImages) = 0
  THEN "Missing references"
  ELSE IF mode = "video" /\ videoSubMode = "extend_video" /\ extendVideoUri = None
  THEN "No video to extend"
  ELSE None

\* mutant for C7: reference images are attached under the condition of the
\* images field (text, image and auto mode), so never in video mode
SendPayloadNoReferences(n) ==
  LET video == mode = "video"
      plain == (mode = "text" \/ mode = "image" \/ mode = "auto") /\ Len(uploadedImages) > 0
  IN
  [n |-> n,
   mode |-> mode,
   prompt |-> inputValue,
   conversation_id |-> chatId,
   avatar_id |-> IF mode # "text" /\ sendAvatar # None THEN sendAvatar ELSE None,
   script |-> IF mode = "plan" THEN inputValue ELSE None,
   images |-> IF plain THEN ImagePayloads(uploadedImages) ELSE <<>>,
   video_mode |-> IF video THEN videoSubMode ELSE None,
   model |-> IF video THEN videoParams.model ELSE None,
   aspect_ratio |-> IF video THEN videoParams.aspect_ratio ELSE None,
   resolution |-> IF video THEN videoParams.resolution ELSE None,
   start_frame |-> IF video /\ videoSubMode = "frames_to_video" /\ Len(uploadedImages) = 2
                   THEN << ImagePayload(uploadedImages[1]) >> ELSE <<>>,
   end_frame |-> IF video /\ videoSubMode = "frames_to_video" /\ Len(uploadedImages) = 2
                 THEN << ImagePayload(uploadedImages[2]) >> ELSE <<>>,
   reference_images |-> IF plain THEN ImagePayloads(uploadedImages) ELSE <<>>,
   input_video |-> IF video /\ videoSubMode = "extend_video" /\ extendVideoUri # None
                   THEN extendVideoUri ELSE None,
   execution_plan |-> <<>>]

\* the request body handleSendMessage builds; absent fields are None or <<>>;
\* n numbers the request
SendPayload(n) ==
  LET video == mode = "video" IN
  [n |-> n,
   mode |-> mode,
   prompt |-> inputValue,
   conversation_id |-> chatId,
   avatar_id |-> IF mode # "text" /\ sendAvatar # None THEN sendAvatar ELSE None,
   script |-> IF mode = "plan" THEN inputValue ELSE None,
   images |-> IF (mode = "text" \/ mode = "image" \/ mode = "auto") /\ Len(uploadedImages) > 0
              THEN ImagePayloads(uploadedImages) ELSE <<>>,
   video_mode |-> IF video THEN videoSubMode ELSE None,
   model |-> IF video THEN videoParams.model ELSE None,
   aspect_ratio |-> IF video THEN videoParams.aspect_ratio ELSE None,
   resolution |-> IF video THEN videoParams.resolution ELSE None,
   start_frame |-> IF video /\ videoSubMode = "frames_to_video" /\ Len(uploadedImages) = 2
                   THEN << ImagePayload(uploadedImages[1]) >> ELSE <<>>,
   end_frame |-> IF video /\ videoSubMode = "frames_to_video" /\ Len(uploadedImages) = 2
                 THEN << ImagePayload(uploadedImages[2]) >> ELSE <<>>,
   reference_images |-> IF video /\ videoSubMode = "references_to_video"
                        THEN ImagePayloads(uploadedImages) ELSE <<>>,
   input_video |-> IF video /\ videoSubMode = "extend_video" /\ extendVideoUri # None
                   THEN extendVideoUri ELSE None,
   execution_plan |-> <<>>]

\* the optimistic user message of the n-th request
UserMessage(n, content) ==
  [id |-> <<"u", n>>, type |-> "user", content |-> content,
   assets |-> <<>>, execution_plan |-> <<>>, scene_results |-> <<>>]

\* mutant for C9: the input is cleared before validation
RejectSubmitClearsInput(error) ==
  /\ toast' = error
  /\ inputValue' = ""
  /\ UNCHANGED <<convVars, modeVars, mediaVars, isGenerating, currentExecutionPlan,
                 selectedAvatar, netVars, lastExtend,
                 planVars, serverVars, galleryVars>>

\* the submit is rejected by validation: a toast and return
RejectSubmit(error) ==
  /\ toast' = error
  /\ UNCHANGED <<convVars, modeVars, mediaVars, genVars, netVars, lastExtend,
                 planVars, serverVars, galleryVars>>

\* mutant for C10: the request is issued without the optimistic echo
IssueSubmitNoEcho(n) ==
  /\ inputValue' = ""
  /\ isGenerating' = TRUE
  /\ requests' = requests \cup {SendPayload(n)}
  /\ issued' = n
  /\ toast' = None
  /\ UNCHANGED <<convVars, modeVars, mediaVars, currentExecutionPlan, selectedAvatar,
                 newChatCalls, obsVars,
                 planVars, serverVars, galleryVars>>

\* the submit passes validation: optimistic echo, then the request; n numbers it
IssueSubmit(n) ==
  /\ messages' = Append(messages, UserMessage(n, inputValue))
  /\ inputValue' = ""
  /\ isGenerating' = TRUE
  /\ requests' = requests \cup {SendPayload(n)}
  /\ issued' = n
  /\ toast' = None
  /\ UNCHANGED <<chatId, sessionCost, loading, fetches, modeVars, mediaVars,
                 currentExecutionPlan, selectedAvatar, newChatCalls, obsVars,
                 planVars, serverVars, galleryVars>>

handleSendMessage ==
  /\ Trim(inputValue) # ""
  /\ ~isGenerating
  /\ IF ValidationError # None
     THEN RejectSubmit(ValidationError)
     ELSE issued < MaxRequests /\ IssueSubmit(issued + 1)
  /\ Rerender(FALSE)
  /\ UNCHANGED profileVars

\* The parent's onNewChat(id): it adopts the backend's conversation id (the
\* view is re-rendered with chatId = id, which runs useEffect[chatId]).
onNewChat(id, msgs, cost) ==
  /\ newChatCalls' = Append(newChatCalls, id)
  /\ chatId' = id
  /\ IF id # chatId
     THEN ChatIdEffect(id, msgs, cost)
     ELSE /\ messages' = msgs
          /\ sessionCost' = cost
          /\ UNCHANGED <<loading, fetches>>

\* the heap after a response's execution_plan, if any, has been parsed
WithPlan(data) ==
  IF data.execution_plan # <<>>
  THEN Append(planObjects, data.execution_plan[1])
  ELSE planObjects

\* the reference of the response's parsed execution_plan, <<>> if none
PlanRef(data) ==
  IF data.execution_plan # <<>> THEN << Len(planObjects) + 1 >> ELSE <<>>

\* the backend's store after it has answered req with data
Stored(tag, req, data) ==
  IF StoredIn(req, data) = None THEN serverLog
  ELSE [serverLog EXCEPT ![StoredIn(req, data)] = @ \o StoredExchange(tag, req, data)]

\* mutant for C26: the session cost of the response is taken as it is, an
\* absent one included
AdoptedCostOverwrites(data) == data.session_cost

\* if (data.session_cost) setSessionCost(data.session_cost): the session cost
\* after a response
AdoptedCost(data) ==
  IF data.session_cost # <<>> THEN data.session_cost ELSE sessionCost

\* mutant for C13: only video counts as a one-shot mode
OneShotVideoOnly(m) == m = "video"

\* the modes that do not persist across turns
OneShot(m) == m = "video" \/ m = "plan"

\* mutant for C12: the success path leaves the extend target
SendSucceededKeepsTarget(req, data) ==
  LET msgs == Append(messages,
                     ParseMessage(data.message, PlanRef(data), data.scene_results))
      cost == AdoptedCost(data)
  IN
  /\ IF data.conversation_id # None /\ data.conversation_id # req.conversation_id
     THEN /\ data.conversation_id # chatId => Len(fetches) < MaxFetches
          /\ onNewChat(data.conversation_id, msgs, cost)
     ELSE /\ messages' = msgs
          /\ sessionCost' = cost
          /\ UNCHANGED <<chatId, loading, fetches, newChatCalls>>
  /\ planObjects' = WithPlan(data)
  /\ currentExecutionPlan' =
       IF data.execution_plan # <<>> THEN PlanRef(data) ELSE currentExecutionPlan
  /\ serverLog' = Stored("su", req, data)
  /\ UNCHANGED serverAssets
  /\ extendVideoUri' = extendVideoUri
  /\ CommitModeState(IF OneShot(req.mode) THEN "auto" ELSE mode,
                     IF OneShot(req.mode) THEN "text_to_video" ELSE videoSubMode,
                     videoParams, <<>>, "Generated!")
  /\ UNCHANGED <<reads, nextFile, inputValue, selectedAvatar, issued, lastExtend,
                 editedPlan, editPlanModalOpen, buildRequests, built, galleryVars>>

\* the success path of handleSendMessage for request req (its closure holds
\* the mode and chatId of the submit) and response data
SendSucceeded(req, data) ==
  LET msgs == Append(messages,
                     ParseMessage(data.message, PlanRef(data), data.scene_results))
      cost == AdoptedCost(data)
  IN
  /\ IF data.conversation_id # None /\ data.conversation_id # req.conversation_id
     THEN /\ data.conversation_id # chatId => Len(fetches) < MaxFetches
          /\ onNewChat(data.conversation_id, msgs, cost)
     ELSE /\ messages' = msgs
          /\ sessionCost' = cost
          /\ UNCHANGED <<chatId, loading, fetches, newChatCalls>>
  /\ planObjects' = WithPlan(data)
  /\ currentExecutionPlan' =
       IF data.execution_plan # <<>> THEN PlanRef(data) ELSE currentExecutionPlan
  /\ serverLog' = Stored("su", req, data)
  /\ UNCHANGED serverAssets
  /\ extendVideoUri' = None
  /\ CommitModeState(IF OneShot(req.mode) THEN "auto" ELSE mode,
                     IF OneShot(req.mode) THEN "text_to_video" ELSE videoSubMode,
                     videoParams, <<>>, "Generated!")
  /\ UNCHANGED <<reads, nextFile, inputValue, selectedAvatar, issued, lastExtend,
                 editedPlan, editPlanModalOpen, buildRequests, built, galleryVars>>

\* mutant for C11: the failure path clears staged media and extend target
SendFailedClearsMedia(outcome) ==
  /\ toast' = IF outcome = "http_error" THEN "Generation failed" ELSE "Error"
  /\ uploadedImages' = <<>>
  /\ extendVideoUri' = None
  /\ UNCHANGED <<convVars, modeVars, reads, nextFile, inputValue, currentExecutionPlan,
                 selectedAvatar, issued, newChatCalls, lastExtend,
                 planVars, serverVars, galleryVars>>

\* the failure paths of handleSendMessage: "http_error" (!res.ok) and
\* "throw" (transport error, the catch block)
SendFailed(outcome) ==
  /\ toast' = IF outcome = "http_error" THEN "Generation failed" ELSE "Error"
  /\ UNCHANGED <<convVars, modeVars, mediaVars, inputValue, currentExecutionPlan,
                 selectedAvatar, issued, newChatCalls, lastExtend,
                 planVars, serverVars, galleryVars>>

\* mutant for C35: the flag is cleared on the success path only
GeneratingAfterSuccessOnly(outcome) == outcome # "ok"

\* isGenerating after the continuation of a generation request has run:
\* every path ends in finally { setIsGenerating(false) }
GeneratingAfter(outcome) == FALSE

\* the continuation of handleSendMessage after await fetch for request req;
\* outcome: "ok" with the response data, "http_error", "throw"
handleSendMessageResolved(req, outcome, data) ==
  /\ req \in requests
  /\ requests' = requests \ {req}
  /\ isGenerating' = GeneratingAfter(outcome)
  /\ IF outcome = "ok" THEN SendSucceeded(req, data) ELSE SendFailed(outcome)
  /\ Rerender(outcome = "ok")
  /\ UNCHANGED profileVars

(***************************************************************************)
(* Plan Model: review, edit and build of an execution plan.  Plans are     *)
(* objects: a transcript message and editedPlan hold references into       *)
(* planObjects.  An edit handler makes a shallow copy ({ ...editedPlan })  *)
(* and assigns into updated.scenes[idx], the scenes array the copy shares   *)
(* with editedPlan, so it writes the object editedPlan refers to.          *)
(***************************************************************************)
\* mutant for C37: the copy of a scene loses its dependencies
JsonCopySceneNoDependencies(sc) ==
  [id |-> sc.id, description |-> sc.description, prompt |-> sc.prompt,
   duration_hint |-> sc.duration_hint, mode |-> sc.mode, model |-> sc.model,
   aspect_ratio |-> sc.aspect_ratio, resolution |-> sc.resolution,
   dependencies |-> <<>>]

\* JSON.parse(JSON.stringify(sc)): a new object with the JSON content of sc
JsonCopyScene(sc) ==
  [id |-> sc.id, description |-> sc.description, prompt |-> sc.prompt,
   duration_hint |-> sc.duration_hint, mode |-> sc.mode, model |-> sc.model,
   aspect_ratio |-> sc.aspect_ratio, resolution |-> sc.resolution,
   dependencies |-> [i \in 1..Len(sc.dependencies) |-> sc.dependencies[i]]]

JsonCopy(plan) ==
  [scenes |-> [i \in 1..Len(plan.scenes) |-> JsonCopyScene(plan.scenes[i])],
   orchestration |->
     [parallel_groups |-> plan.orchestration.parallel_groups,
      sequential_chains |-> plan.orchestration.sequential_chains],
   script_hash |-> plan.script_hash]

\* the messages shown with their plan and its Review/Edit and Build buttons
PlanMessages ==
  IF loading THEN {}
  ELSE {i \in 1..Len(messages) :
          /\ messages[i].type = "assistant"
          /\ messages[i].execution_plan # <<>>
          /\ messages[i].scene_results = <<>>}

\* mutant for C16: the editor is given the message's plan object itself
handleOpenEditPlanNoCopy(i) ==
  /\ i \in PlanMessages
  /\ ~editPlanModalOpen
  /\ editedPlan' = messages[i].execution_plan
  /\ editPlanModalOpen' = TRUE
  /\ toast' = None
  /\ UNCHANGED <<convVars, modeVars, mediaVars, genVars, netVars, obsVars,
                 planObjects, buildRequests, built, serverVars, galleryVars>>
  /\ Rerender(FALSE)
  /\ UNCHANGED profileVars

\* Review/Edit on the plan of message i.  The copy is a new object.  Nothing
\* but editedPlan refers to the copy of an earlier review (a build request
\* holds the JSON text of its plan), so that object is garbage once
\* editedPlan is reassigned, and the new copy takes its place in the heap.
handleOpenEditPlan(i) ==
  /\ i \in PlanMessages
  /\ ~editPlanModalOpen
  /\ IF editedPlan = <<>>
     THEN /\ planObjects' = Append(planObjects,
                                   JsonCopy(planObjects[messages[i].execution_plan[1]]))
          /\ editedPlan' = << Len(planObjects) + 1 >>
     ELSE /\ planObjects' = [planObjects EXCEPT ![editedPlan[1]] =
                               JsonCopy(planObjects[messages[i].execution_plan[1]])]
          /\ UNCHANGED editedPlan
  /\ editPlanModalOpen' = TRUE
  /\ toast' = None
  /\ UNCHANGED <<convVars, modeVars, mediaVars, genVars, netVars, obsVars,
                 buildRequests, built, serverVars, galleryVars>>
  /\ Rerender(FALSE)
  /\ UNCHANGED profileVars

\* scene.model || "veo-3.1-fast-generate-preview"
SceneModel(sc) ==
  IF sc.model = None THEN "veo-3.1-fast-generate-preview" ELSE sc.model

\* the items of a scene's Mode Select
SceneModeItems(sc) ==
  {"text_to_video", "extend_video"} \cup
    (IF isVeo31Model(SceneModel(sc))
     THEN {"frames_to_video", "references_to_video"} ELSE {})

\* the Mode Select of scene idx in the edit modal
SetSceneMode(idx, value) ==
  /\ editPlanModalOpen
  /\ editedPlan # <<>>
  /\ idx \in 1..Len(planObjects[editedPlan[1]].scenes)
  /\ value \in SceneModeItems(planObjects[editedPlan[1]].scenes[idx])
  /\ value # planObjects[editedPlan[1]].scenes[idx].mode
  /\ planObjects' = [planObjects EXCEPT ![editedPlan[1]].scenes[idx].mode = value]
  /\ toast' = None
  /\ UNCHANGED <<convVars, modeVars, mediaVars, genVars, netVars, obsVars,
                 editedPlan, editPlanModalOpen, buildRequests, built,
                 serverVars, galleryVars>>
  /\ Rerender(FALSE)
  /\ UNCHANGED profileVars

\* mutant for C17: the model is assigned without the capability check
SceneWithModelUnchecked(sc, value) ==
  [sc EXCEPT !.model = value]

\* the scene after its Model Select has chosen value
SceneWithModel(sc, value) ==
  [sc EXCEPT !.model = value,
             !.mode = IF ~isVeo31Model(value) /\
                         (sc.mode = "frames_to_video" \/ sc.mode = "references_to_video")
                      THEN "text_to_video" ELSE sc.mode]

\* the Model Select of scene idx in the edit modal
SetSceneModel(idx, value) ==
  /\ editPlanModalOpen
  /\ editedPlan # <<>>
  /\ idx \in 1..Len(planObjects[editedPlan[1]].scenes)
  /\ value # SceneModel(planObjects[editedPlan[1]].scenes[idx])
  /\ planObjects' = [planObjects EXCEPT ![editedPlan[1]].scenes[idx] =
                       SceneWithModel(@, value)]
  /\ toast' = None
  /\ UNCHANGED <<convVars, modeVars, mediaVars, genVars, netVars, obsVars,
                 editedPlan, editPlanModalOpen, buildRequests, built,
                 serverVars, galleryVars>>
  /\ Rerender(FALSE)
  /\ UNCHANGED profileVars

\* the fields of a scene the modal edits by plain assignment
SceneFields == {"duration_hint", "description", "prompt", "aspect_ratio", "resolution"}

\* what the control of a field shows for the scene
SceneFieldShown(sc, field) ==
  IF field = "aspect_ratio" /\ sc.aspect_ratio = None THEN "16:9"
  ELSE IF field = "resolution" /\ sc.resolution = None THEN "720p"
  ELSE sc[field]

\* the values the control of a field can take: the items of the two
\* Selects, two texts for the text inputs
SceneFieldValues(field) ==
  IF field = "aspect_ratio" THEN AspectRatio
  ELSE IF field = "resolution" THEN Resolution
  ELSE IF field = "duration_hint" THEN {"5s", "8s"}
  ELSE {"d", "p", "edited"}

\* the duration, description and prompt inputs and the aspect ratio and
\* resolution Selects of scene idx: updated.scenes[idx][field] = value
SetSceneField(idx, field, value) ==
  /\ editPlanModalOpen
  /\ editedPlan # <<>>
  /\ idx \in 1..Len(planObjects[editedPlan[1]].scenes)
  /\ field \in SceneFields
  /\ value \in SceneFieldValues(field)
  /\ value # SceneFieldShown(planObjects[editedPlan[1]].scenes[idx], field)
  /\ planObjects' = [planObjects EXCEPT ![editedPlan[1]].scenes[idx][field] = value]
  /\ toast' = None
  /\ UNCHANGED <<convVars, modeVars, mediaVars, genVars, netVars, obsVars,
                 editedPlan, editPlanModalOpen, buildRequests, built,
                 serverVars, galleryVars>>
  /\ Rerender(FALSE)
  /\ UNCHANGED profileVars

\* Cancel, or the dialog closing itself: onOpenChange(false)
CancelEditPlan ==
  /\ editPlanModalOpen
  /\ editPlanModalOpen' = FALSE
  /\ toast' = None
  /\ UNCHANGED <<convVars, modeVars, mediaVars, genVars, netVars, obsVars,
                 planObjects, editedPlan, buildRequests, built,
                 serverVars, galleryVars>>
  /\ Rerender(FALSE)
  /\ UNCHANGED profileVars

\* mutant for C27: the request carries the first scene of the plan only
BuildPayloadFirstScene(k, plan, origin) ==
  [n |-> k,
   mode |-> "plan",
   prompt |-> "Execute plan",
   execution_plan |-> [plan EXCEPT !.scenes = SubSeq(@, 1, 1)],
   conversation_id |-> chatId,
   avatar_id |-> buildAvatar,
   origin |-> origin]

\* the request body handleBuildPlan sends for plan; k numbers the request.
\* origin is not part of the body: it records where Build was pressed.
BuildPayload(k, plan, origin) ==
  [n |-> k,
   mode |-> "plan",
   prompt |-> "Execute plan",
   execution_plan |-> plan,
   conversation_id |-> chatId,
   avatar_id |-> buildAvatar,
   origin |-> origin]

\* handleBuildPlan up to await fetch
handleBuildPlan(plan, origin) ==
  /\ isGenerating' = TRUE
  /\ editPlanModalOpen' = FALSE
  /\ buildRequests' = buildRequests \cup {BuildPayload(built + 1, plan, origin)}
  /\ built' = built + 1
  /\ toast' = None
  /\ UNCHANGED <<convVars, modeVars, mediaVars, inputValue, currentExecutionPlan,
                 selectedAvatar, netVars, obsVars, planObjects, editedPlan,
                 serverVars, galleryVars>>
  /\ Rerender(FALSE)
  /\ UNCHANGED profileVars

\* mutant for C15: the Build button of a plan message is not disabled
BuildFromMessageNotDisabled(i) ==
  /\ i \in PlanMessages
  /\ ~editPlanModalOpen
  /\ handleBuildPlan(planObjects[messages[i].execution_plan[1]], "message")

\* the Build button of the plan of message i (disabled while generating)
BuildFromMessage(i) ==
  /\ i \in PlanMessages
  /\ ~editPlanModalOpen
  /\ ~isGenerating
  /\ handleBuildPlan(planObjects[messages[i].execution_plan[1]], "message")

\* the Build buttons of the edit modal (disabled while generating)
BuildFromEditor ==
  /\ editPlanModalOpen
  /\ editedPlan # <<>>
  /\ ~isGenerating
  /\ handleBuildPlan(planObjects[editedPlan[1]], "editor")

\* a scene outcome that is a success
SceneSucceeded(r) == r.success

\* mutant for C19: the message keeps the outcomes of successful scenes only
BuiltMessageSuccessesOnly(data) ==
  ParseMessage(data.message, PlanRef(data),
               SelectSeq(data.scene_results, SceneSucceeded))

\* the assistant message built from a successful build response
BuiltMessage(data) ==
  ParseMessage(data.message, PlanRef(data), data.scene_results)

\* the continuation of handleBuildPlan after await fetch for request req;
\* outcome: "ok" with the response data, "http_error" (!res.ok), "throw".
\* The finally block runs on every path, the early return included.
handleBuildPlanResolved(req, outcome, data) ==
  LET msgs == Append(messages, BuiltMessage(data))
      cost == AdoptedCost(data)
  IN
  /\ req \in buildRequests
  /\ buildRequests' = buildRequests \ {req}
  /\ isGenerating' = GeneratingAfter(outcome)
  /\ currentExecutionPlan' = <<>>
  /\ IF outcome = "ok"
     THEN /\ IF data.conversation_id # None /\ data.conversation_id # req.conversation_id
             THEN /\ data.conversation_id # chatId => Len(fetches) < MaxFetches
                  /\ onNewChat(data.conversation_id, msgs, cost)
             ELSE /\ messages' = msgs
                  /\ sessionCost' = cost
                  /\ UNCHANGED <<chatId, loading, fetches, newChatCalls>>
          /\ planObjects' = WithPlan(data)
          /\ serverLog' = Stored("sb", req, data)
          /\ UNCHANGED serverAssets
          /\ toast' = "Plan Executed!"
     ELSE /\ toast' = IF outcome = "http_error" THEN "Plan Execution Failed" ELSE "Error"
          /\ UNCHANGED <<convVars, newChatCalls, planObjects, serverVars>>
  /\ UNCHANGED <<modeVars, mediaVars, inputValue, selectedAvatar, requests, issued,
                 obsVars, editedPlan, editPlanModalOpen, built, galleryVars>>
  /\ Rerender(FALSE)
  /\ UNCHANGED profileVars

(***************************************************************************)
(* Asset Interaction Sync: the like buttons of the chat (handleAddToAssets)*)
(* and of the gallery (AssetsView.handleToggleLike).  AppShell mounts one  *)
(* view at a time; the state of the view that is not mounted keeps its     *)
(* initial value.  The backend answers a like with the updated asset or    *)
(* with deleted: true; its collection changes with the answer.             *)
(***************************************************************************)
\* the answers of the toggle-like endpoint: the asset was removed from the
\* collection, is liked, is not liked; or the call failed
LikeAnswers == {"deleted", "liked", "unliked"}

LikeFailures == {"http_error", "throw"}

\* the collection after POST assets (create): the asset is in it
CreatedCollection(a) ==
  IF \E i \in 1..Len(serverAssets) : serverAssets[i].id = a.id
  THEN serverAssets
  ELSE Append(serverAssets, CollectionAsset(a.id, a.type, "false", 0))

\* the collection col after toggle-like on asset id was answered with answer
ToggledCollection(col, id, answer) ==
  IF answer = "deleted" THEN SeqFilterOut(col, id)
  ELSE [i \in 1..Len(col) |->
          IF col[i].id = id
          THEN [col[i] EXCEPT !.liked = IF answer = "liked" THEN "true" ELSE "false"]
          ELSE col[i]]

\* mutant for C36: the flag is set on every asset of the list
SetLikedEvery(as, id, v) ==
  [i \in 1..Len(as) |-> [as[i] EXCEPT !.liked = v]]

\* as.map((a) => (a.id === id ? { ...a, liked: v } : a))
SetLiked(as, id, v) ==
  [i \in 1..Len(as) |-> IF as[i].id = id THEN [as[i] EXCEPT !.liked = v] ELSE as[i]]

\* prev.map((m) => ({ ...m, assets: m.assets?.map(...) }))
SetLikedInMessages(ms, id, v) ==
  [i \in 1..Len(ms) |-> [ms[i] EXCEPT !.assets = SetLiked(@, id, v)]]

\* the Like button of an asset shown in the transcript: up to the first await
handleAddToAssets(assetId) ==
  /\ currentView = "chat"
  /\ ~loading
  /\ \E i \in 1..Len(AllAssets(messages)) : AllAssets(messages)[i].id = assetId
  /\ toggles' = Append(toggles,
       LET shown == CHOOSE a \in Range(AllAssets(messages)) : a.id = assetId
       IN  [view |-> "chat", id |-> assetId, type |-> shown.type, was |-> shown.liked])
  /\ toast' = "Saving..."
  /\ assetsChanged' = <<>>
  /\ UNCHANGED <<convVars, modeVars, mediaVars, genVars, netVars, obsVars,
                 planVars, serverVars, assets, assetsLoading, assetFetches,
                 currentView, downloadCalls>>
  /\ Rerender(FALSE)
  /\ UNCHANGED profileVars

\* the transcript after the chat's like of asset id was answered
ChatLiked(ms, id, answer) ==
  IF answer = "deleted"
  THEN SetLikedInMessages(ms, id, FALSE)
  ELSE SetLikedInMessages(ms, id, answer = "liked")

\* an outstanding fetchAssets call: what made it and, for the call of the
\* catch block of handleToggleLike, the like it rolls back
\* data: <<>> until the backend has answered, then << the list it sent >>
FetchCall(cause, t) == [cause |-> cause, id |-> t.id, was |-> t.was, data |-> <<>>]

\* the calls of the mount effect and of the event listener roll back no like
NoLike == [id |-> None, was |-> FALSE]

\* window.dispatchEvent(new CustomEvent("assets:changed", { detail })): the
\* listener of a mounted AssetsView calls fetchAssets
DispatchAssetsChanged(detail) ==
  /\ assetsChanged' = << detail >>
  /\ IF currentView = "assets"
     THEN /\ assetsLoading' = TRUE
          /\ assetFetches' = Append(assetFetches, FetchCall("event", NoLike))
     ELSE UNCHANGED <<assetsLoading, assetFetches>>

\* the continuation of handleAddToAssets for the i-th outstanding like;
\* outcome: "create_failed", a failure of toggle-like, or its answer.
\* The state updates of a ChatView that is no longer mounted are dropped.
handleAddToAssetsResolved(i, outcome) ==
  LET t == toggles[i] IN
  /\ i \in 1..Len(toggles)
  /\ t.view = "chat"
  /\ toggles' = RemoveAt(toggles, i)
  /\ IF outcome \in LikeAnswers
     THEN /\ messages' = IF currentView = "chat"
                         THEN ChatLiked(messages, t.id, outcome) ELSE messages
          /\ serverAssets' = ToggledCollection(CreatedCollection(t), t.id, outcome)
          /\ toast' = IF outcome = "deleted" THEN "Removed from Assets"
                      ELSE IF outcome = "liked" THEN "Added to Assets" ELSE "Updated"
          /\ DispatchAssetsChanged([id |-> t.id, deleted |-> outcome = "deleted"])
     ELSE /\ serverAssets' = IF outcome = "create_failed" THEN serverAssets
                             ELSE CreatedCollection(t)
          /\ toast' = "Error"
          /\ assetsChanged' = <<>>
          /\ UNCHANGED <<messages, assetsLoading, assetFetches>>
  /\ UNCHANGED <<chatId, sessionCost, loading, fetches, modeVars, mediaVars, genVars,
                 netVars, obsVars, planVars, serverLog,
                 assets, currentView, downloadCalls>>
  /\ Rerender(FALSE)
  /\ UNCHANGED profileVars

\* an Asset of the gallery parsed from the backend's list
ParseCollection(col) ==
  [i \in 1..Len(col) |->
     [id |-> col[i].id, type |-> col[i].type, liked |-> Truthy(col[i].liked),
      downloads |-> col[i].downloads]]

\* GET assets: the backend answers the i-th outstanding fetchAssets call with
\* the collection it holds at that moment; the answer is then under way
fetchAssetsServed(i) ==
  /\ i \in 1..Len(assetFetches)
  /\ assetFetches[i].data = <<>>
  /\ assetFetches' = [assetFetches EXCEPT ![i].data = << serverAssets >>]
  /\ toast' = None
  /\ assetsChanged' = <<>>
  /\ UNCHANGED <<convVars, modeVars, mediaVars, genVars, netVars, obsVars,
                 planVars, serverVars, assets, assetsLoading, toggles, currentView,
                 downloadCalls>>
  /\ Rerender(FALSE)
  /\ UNCHANGED profileVars

\* the continuation of fetchAssets after await fetch, for the i-th
\* outstanding call; with the outcome "ok", col is the collection the backend
\* sent.  A call made by the catch block of handleToggleLike ("rollback") is
\* followed by that block's toast.
fetchAssetsResolved(i, outcome, col) ==
  /\ currentView = "assets"
  /\ i \in 1..Len(assetFetches)
  /\ assetFetches' = RemoveAt(assetFetches, i)
  /\ assetsLoading' = FALSE
  /\ IF outcome = "ok"
     THEN /\ assets' = ParseCollection(col)
          /\ toast' = IF assetFetches[i].cause = "rollback" THEN "Error" ELSE None
     ELSE /\ toast' = "Error"
          /\ UNCHANGED assets
  /\ assetsChanged' = <<>>
  /\ UNCHANGED <<convVars, modeVars, mediaVars, genVars, netVars, obsVars,
                 planVars, serverVars, toggles, currentView, downloadCalls>>
  /\ Rerender(FALSE)
  /\ UNCHANGED profileVars

\* the heart button of an asset of the gallery: the optimistic flip, then
\* the request
handleToggleLike(assetId) ==
  /\ currentView = "assets"
  /\ ~assetsLoading
  /\ \E i \in 1..Len(assets) : assets[i].id = assetId
  /\ assets' = [i \in 1..Len(assets) |->
                  IF assets[i].id = assetId
                  THEN [assets[i] EXCEPT !.liked = ~assets[i].liked] ELSE assets[i]]
  /\ toggles' = Append(toggles,
       LET shown == CHOOSE a \in Range(assets) : a.id = assetId
       IN  [view |-> "assets", id |-> assetId, type |-> shown.type, was |-> shown.liked])
  /\ toast' = None
  /\ assetsChanged' = <<>>
  /\ UNCHANGED <<convVars, modeVars, mediaVars, genVars, netVars, obsVars,
                 planVars, serverVars, assetsLoading, assetFetches, currentView,
                 downloadCalls>>
  /\ Rerender(FALSE)
  /\ UNCHANGED profileVars

\* the continuation of handleToggleLike for the i-th outstanding like;
\* outcome: the answer of toggle-like, or a failure, which re-fetches
handleToggleLikeResolved(i, outcome) ==
  LET t == toggles[i] IN
  /\ currentView = "assets"
  /\ i \in 1..Len(toggles)
  /\ t.view = "assets"
  /\ toggles' = RemoveAt(toggles, i)
  /\ IF outcome \in LikeAnswers
     THEN /\ assets' = IF outcome = "deleted" THEN SeqFilterOut(assets, t.id)
                       ELSE SetLiked(assets, t.id, outcome = "liked")
          /\ serverAssets' = ToggledCollection(serverAssets, t.id, outcome)
          /\ toast' = IF outcome = "deleted" THEN "Removed from Assets"
                      ELSE IF outcome = "liked" THEN "Added to Assets" ELSE "Updated"
          /\ UNCHANGED <<assetsLoading, assetFetches>>
     ELSE /\ assetsLoading' = TRUE
          /\ assetFetches' = Append(assetFetches, FetchCall("rollback", t))
          /\ toast' = None
          /\ UNCHANGED <<assets, serverAssets>>
  /\ assetsChanged' = <<>>
  /\ UNCHANGED <<convVars, modeVars, mediaVars, genVars, netVars, obsVars,
                 planVars, serverLog, currentView, downloadCalls>>
  /\ Rerender(FALSE)
  /\ UNCHANGED profileVars

\* prev.map(a => a.id === id ? { ...a, downloads: f(a.downloads) } : a), with
\* the new counter given per old counter
SetDownloads(as, id, f) ==
  [i \in 1..Len(as) |->
     IF as[i].id = id THEN [as[i] EXCEPT !.downloads = f[as[i].downloads]] ELSE as[i]]

\* the collection after POST assets/{id}/increment-download
Downloaded(col, id) ==
  [i \in 1..Len(col) |->
     IF col[i].id = id THEN [col[i] EXCEPT !.downloads = @ + 1] ELSE col[i]]

\* the download counter of asset id in the list as, 0 if the list lacks it
DownloadsOf(as, id) ==
  IF \E i \in 1..Len(as) : as[i].id = id
  THEN (CHOOSE a \in Range(as) : a.id = id).downloads
  ELSE 0

\* the counters a gallery asset can show
Counters == 0..(MaxDownloads + MaxDownloadCalls + 1)

\* the Download button of an asset of the gallery: the optimistic increment,
\* then the request
handleDownload(assetId) ==
  /\ currentView = "assets"
  /\ ~assetsLoading
  /\ \E i \in 1..Len(assets) : assets[i].id = assetId
  /\ assets' = SetDownloads(assets, assetId, [d \in Counters |-> d + 1])
  /\ downloadCalls' = Append(downloadCalls,
                             [id |-> assetId, was |-> DownloadsOf(assets, assetId)])
  /\ toast' = None
  /\ assetsChanged' = <<>>
  /\ UNCHANGED <<convVars, modeVars, mediaVars, genVars, netVars, obsVars,
                 planVars, serverVars, assetsLoading, assetFetches, toggles,
                 currentView>>
  /\ Rerender(FALSE)
  /\ UNCHANGED profileVars

\* the continuation of handleDownload for the i-th outstanding call; outcome:
\* "ok" (the backend has the asset and answers with its new counter),
\* "http_error" or "throw".  The browser download that follows changes no state.
handleDownloadResolved(i, outcome) ==
  LET c == downloadCalls[i]
      updated == Downloaded(serverAssets, c.id)
  IN
  /\ currentView = "assets"
  /\ i \in 1..Len(downloadCalls)
  /\ downloadCalls' = RemoveAt(downloadCalls, i)
  /\ IF outcome = "ok"
     THEN /\ \E k \in 1..Len(serverAssets) : serverAssets[k].id = c.id
          /\ serverAssets' = updated
          /\ assets' = SetDownloads(assets, c.id,
                                    [d \in Counters |-> DownloadsOf(updated, c.id)])
          /\ toast' = None
     ELSE /\ assets' = SetDownloads(assets, c.id,
                                    [d \in Counters |-> IF d = 0 THEN 0 ELSE d - 1])
          /\ toast' = "Error"
          /\ UNCHANGED serverAssets
  /\ assetsChanged' = <<>>
  /\ UNCHANGED <<convVars, modeVars, mediaVars, genVars, netVars, obsVars,
                 planVars, serverLog, assetsLoading, assetFetches, toggles,
                 currentView>>
  /\ Rerender(FALSE)
  /\ UNCHANGED profileVars

(***************************************************************************)
(* ProfileView: the load effect and the handlers that re-run it.           *)
(***************************************************************************)
\* a run of the load effect when it starts: the aborted flag of its closure
\* (set together with controller.abort()), the answer of GET assets (<<>>
\* until the backend has answered), how its load() ended (None while it is
\* in flight) and whether it ended after a later run had started or after
\* the view was unmounted
LoadRun == [aborted |-> FALSE, data |-> <<>>, outcome |-> None, late |-> FALSE]

\* the cleanup of the load effect: aborted = true; controller.abort()
Cleanup(ls) == [i \in 1..Len(ls) |-> [ls[i] EXCEPT !.aborted = TRUE]]

\* the load effect runs, on mount or after retryKey has changed: the cleanup
\* of the previous run, then load() up to its await fetch
RunLoadEffect ==
  /\ loads' = Append(Cleanup(loads), LoadRun)
  /\ profileLoading' = TRUE
  /\ profileError' = None

\* arr.map(a => ({ id, type, ..., liked: !!a.liked,
\*                 downloads: Number(a.downloads ?? 0) }))
Normalized(col) ==
  [i \in 1..Len(col) |->
     [id |-> col[i].id, type |-> col[i].type, liked |-> Truthy(col[i].liked),
      downloads |-> col[i].downloads]]

\* mutant for C40: load() writes whether or not its run was cleaned up
LoadMayWriteAlways(run) == TRUE

\* if (!aborted), the guard of setAssets(normalized) and of setLoading(false)
LoadMayWrite(run) == ~run.aborted

\* GET assets: the backend answers the n-th run's fetch, not aborted so far,
\* with the collection it holds at that moment
ProfileLoadServed(n) ==
  /\ n \in 1..Len(loads)
  /\ loads[n].outcome = None
  /\ loads[n].data = <<>>
  /\ ~loads[n].aborted
  /\ loads' = [loads EXCEPT ![n].data = << serverAssets >>]
  /\ toast' = None
  /\ assetsChanged' = <<>>
  /\ UNCHANGED <<convVars, modeVars, mediaVars, genVars, netVars, obsVars,
                 planVars, serverVars, assets, assetsLoading, assetFetches,
                 toggles, currentView, downloadCalls, closureVars,
                 profileAssets, profileLoading, profileError, retryKey,
                 profileLikes>>

\* the rest of load() of the n-th run after its awaits.  outcome "ok": the
\* answer was read; "http_error": !res.ok or another failure, which sets the
\* error and toasts; "abort": the AbortError of an aborted fetch, which the
\* catch block ignores.  A run that was cleaned up after its answer had
\* arrived may still end with "ok" or "http_error".
ProfileLoadResolved(n, outcome) ==
  /\ n \in 1..Len(loads)
  /\ loads[n].outcome = None
  /\ outcome \in {"ok", "http_error", "abort"}
  /\ outcome = "ok" => loads[n].data # <<>>
  /\ outcome = "abort" => loads[n].aborted
  /\ loads' = [loads EXCEPT ![n].outcome = outcome,
                            ![n].late = (n < Len(loads) \/ currentView # "profile")]
  /\ profileAssets' = IF outcome = "ok" /\ LoadMayWrite(loads[n])
                      THEN Normalized(loads[n].data[1]) ELSE profileAssets
  /\ profileError' = IF outcome = "http_error" THEN "Failed to fetch assets"
                     ELSE profileError
  /\ toast' = IF outcome = "http_error" THEN "Error" ELSE None
  /\ profileLoading' = IF LoadMayWrite(loads[n]) THEN FALSE ELSE profileLoading
  /\ assetsChanged' = <<>>
  /\ UNCHANGED <<convVars, modeVars, mediaVars, genVars, netVars, obsVars,
                 planVars, serverVars, assets, assetsLoading, assetFetches,
                 toggles, currentView, downloadCalls, closureVars,
                 retryKey, profileLikes>>

\* the Retry button, shown while error is set: setRetryKey(k => k + 1), and
\* the load effect runs again
Retry ==
  /\ currentView = "profile"
  /\ profileError # None
  /\ Len(loads) < MaxLoads
  /\ retryKey' = retryKey + 1
  /\ RunLoadEffect
  /\ toast' = None
  /\ assetsChanged' = <<>>
  /\ UNCHANGED <<convVars, modeVars, mediaVars, genVars, netVars, obsVars,
                 planVars, serverVars, assets, assetsLoading, assetFetches,
                 toggles, currentView, downloadCalls, closureVars,
                 profileAssets, profileLikes>>

\* ProfileView.handleToggleLike(assetId) up to its await fetch, for an asset
\* of the list
ProfileToggleLike(id) ==
  /\ currentView = "profile"
  /\ \E i \in 1..Len(profileAssets) : profileAssets[i].id = id
  /\ Len(profileLikes) < MaxProfileLikes
  /\ profileLikes' = Append(profileLikes, id)
  /\ toast' = None
  /\ assetsChanged' = <<>>
  /\ UNCHANGED <<convVars, modeVars, mediaVars, genVars, netVars, obsVars,
                 planVars, serverVars, assets, assetsLoading, assetFetches,
                 toggles, currentView, downloadCalls, closureVars,
                 profileAssets, profileLoading, profileError, retryKey, loads>>

\* the rest of ProfileView.handleToggleLike for the i-th outstanding call.
\* After an answer of toggle-like: setRetryKey(k => k + 1), which re-runs the
\* load effect of a mounted view, and the toast; after a failure the toast.
ProfileToggleLikeResolved(i, outcome) ==
  /\ i \in 1..Len(profileLikes)
  /\ outcome \in {"liked", "unliked", "throw"}
  /\ profileLikes' = RemoveAt(profileLikes, i)
  /\ IF outcome = "throw"
     THEN /\ toast' = "Error"
          /\ UNCHANGED <<serverAssets, retryKey, loads, profileLoading, profileError>>
     ELSE /\ serverAssets' = ToggledCollection(serverAssets, profileLikes[i], outcome)
          /\ toast' = "Updated"
          /\ IF currentView = "profile"
             THEN /\ Len(loads) < MaxLoads
                  /\ retryKey' = retryKey + 1
                  /\ RunLoadEffect
             ELSE UNCHANGED <<retryKey, loads, profileLoading, profileError>>
  /\ assetsChanged' = <<>>
  /\ UNCHANGED <<convVars, modeVars, mediaVars, genVars, netVars, obsVars,
                 planVars, serverLog, assets, assetsLoading, assetFetches,
                 toggles, currentView, downloadCalls, closureVars,
                 profileAssets>>

\* AppShell's navigation, from the chat to the gallery or to the profile,
\* and from the profile to the gallery.  Leaving the chat, ChatView is
\* unmounted and its state discarded; the like calls of the chat stay in
\* flight, its other calls have been answered.  AssetsView's mount effect
\* calls fetchAssets; ProfileView's load effect runs on mount and its cleanup
\* on unmount.  The ways back to the chat and out of the gallery are not part
\* of the model; the state of ChatView is the initial one while it is not
\* mounted.
setCurrentView(view) ==
  /\ view \in {"assets", "profile"}
  /\ currentView = "chat" \/ (currentView = "profile" /\ view = "assets")
  /\ requests = {} /\ buildRequests = {} /\ fetches = <<>> /\ reads = {}
  /\ currentView' = view
  /\ IF view = "assets"
     THEN /\ assets' = <<>>
          /\ assetsLoading' = TRUE
          /\ assetFetches' = << FetchCall("mount", NoLike) >>
     ELSE UNCHANGED <<assets, assetsLoading, assetFetches>>
  /\ IF view = "profile"
     THEN /\ RunLoadEffect
          /\ profileAssets' = <<>>
          /\ retryKey' = 0
     ELSE /\ loads' = Cleanup(loads)
          /\ UNCHANGED <<profileAssets, profileLoading, profileError, retryKey>>
  /\ UNCHANGED profileLikes
  /\ assetsChanged' = <<>>
  /\ messages' = << WelcomeMessage >>
  /\ sessionCost' = <<>>
  /\ loading' = FALSE
  /\ mode' = "auto"
  /\ videoSubMode' = "text_to_video"
  /\ videoParams' = [model |-> "veo-3.1-fast-generate-preview",
                     aspect_ratio |-> "16:9", resolution |-> "720p"]
  /\ uploadedImages' = <<>>
  /\ extendVideoUri' = None
  /\ inputValue' = ""
  /\ isGenerating' = FALSE
  /\ currentExecutionPlan' = <<>>
  /\ selectedAvatar' = None
  /\ planObjects' = <<>>
  /\ editedPlan' = <<>>
  /\ editPlanModalOpen' = FALSE
  /\ toast' = None
  /\ UNCHANGED <<chatId, fetches, reads, nextFile, netVars, obsVars, buildRequests,
                 built, serverVars, toggles, downloadCalls>>
  /\ sendAvatar' = None
  /\ buildAvatar' = None

(***************************************************************************)
(* The whole view.                                                         *)
(***************************************************************************)
Init ==
  /\ chatId = None
  /\ messages = << WelcomeMessage >>
  /\ sessionCost = <<>>
  /\ loading = FALSE
  /\ fetches = <<>>
  /\ mode = "auto"
  /\ videoSubMode = "text_to_video"
  /\ videoParams = [model |-> "veo-3.1-fast-generate-preview",
                    aspect_ratio |-> "16:9", resolution |-> "720p"]
  /\ uploadedImages = <<>>
  /\ extendVideoUri = None
  /\ reads = {}
  /\ nextFile = 1
  /\ inputValue = ""
  /\ isGenerating = FALSE
  /\ currentExecutionPlan = <<>>
  /\ selectedAvatar = None
  /\ sendAvatar = None
  /\ buildAvatar = None
  /\ requests = {}
  /\ issued = 0
  /\ newChatCalls = <<>>
  /\ toast = None
  /\ lastExtend = None
  /\ planObjects = <<>>
  /\ editedPlan = <<>>
  /\ editPlanModalOpen = FALSE
  /\ buildRequests = {}
  /\ built = 0
  /\ serverLog = [c \in Convs |-> <<>>]
  /\ assets = <<>>
  /\ assetsLoading = FALSE
  /\ assetFetches = <<>>
  /\ toggles = <<>>
  /\ downloadCalls = <<>>
  /\ assetsChanged = <<>>
  /\ currentView = "chat"
  /\ serverAssets = ServerCollection
  /\ profileAssets = <<>>
  /\ profileLoading = FALSE
  /\ profileError = None
  /\ retryKey = 0
  /\ loads = <<>>
  /\ profileLikes = <<>>

\* the view after the user has opened the gallery: AssetsView is mounted
\* and its first fetchAssets is outstanding
InitGallery ==
  /\ currentView = "assets"
  /\ assets = <<>>
  /\ assetsLoading = TRUE
  /\ assetFetches = << FetchCall("mount", NoLike) >>
  /\ toggles = <<>>
  /\ downloadCalls = <<>>
  /\ assetsChanged = <<>>
  /\ serverAssets = ServerCollection
  /\ profileAssets = <<>>
  /\ profileLoading = FALSE
  /\ profileError = None
  /\ retryKey = 0
  /\ loads = <<>>
  /\ profileLikes = <<>>
  /\ chatId = None
  /\ messages = << WelcomeMessage >>
  /\ sessionCost = <<>>
  /\ loading = FALSE
  /\ fetches = <<>>
  /\ mode = "auto"
  /\ videoSubMode = "text_to_video"
  /\ videoParams = [model |-> "veo-3.1-fast-generate-preview",
                    aspect_ratio |-> "16:9", resolution |-> "720p"]
  /\ uploadedImages = <<>>
  /\ extendVideoUri = None
  /\ reads = {}
  /\ nextFile = 1
  /\ inputValue = ""
  /\ isGenerating = FALSE
  /\ currentExecutionPlan = <<>>
  /\ selectedAvatar = None
  /\ sendAvatar = None
  /\ buildAvatar = None
  /\ requests = {}
  /\ issued = 0
  /\ newChatCalls = <<>>
  /\ toast = None
  /\ lastExtend = None
  /\ planObjects = <<>>
  /\ editedPlan = <<>>
  /\ editPlanModalOpen = FALSE
  /\ buildRequests = {}
  /\ built = 0
  /\ serverLog = [c \in Convs |-> <<>>]

\* the file selections of the model: 1..MaxSelect files, each an image or not
Selections == UNION {[1..k -> BOOLEAN] : k \in 1..MaxSelect}

\* any response record, used where the outcome carries no data
NoData ==
  [conversation_id |-> None,
   message |-> ServerMessage(<<"a", 0>>, "assistant", "", <<>>),
   execution_plan |-> <<>>, scene_results |-> <<>>, session_cost |-> <<>>]

\* the handlers of ChatView and the continuations that need it mounted
ChatViewNext ==
  \/ \E m \in GenerationMode, s \in VideoSubMode \cup {None} : handleModeChange(m, s)
  \/ \E i \in 1..Len(quickPrompts) : QuickPrompt(i)
  \/ \E u \in ExtendableUris : handleExtendVideo(u)
  \/ \E v \in VideoModel : SetModel(v)
  \/ \E v \in AspectRatio : SetAspectRatio(v)
  \/ \E v \in Resolution : SetResolution(v)
  \/ \E f \in Selections : nextFile + Len(f) - 1 <= MaxFiles /\ handleFileSelect(f)
  \/ \E r \in reads : ReadLoaded(r)
  \/ \E i \in 1..Len(uploadedImages) : removeUploadedImage(uploadedImages[i].id)
  \/ \E c \in Convs \cup {None} : SwitchChat(c)
  \/ \E i \in 1..Len(fetches) :
       \/ /\ Len(planObjects) + Len(PlansOf(ServerEntries(fetches[i]))) <= MaxPlans
          /\ fetchConversationResolved(i, "ok")
       \/ \E o \in {"http_error", "throw"} : fetchConversationResolved(i, o)
  \/ \E a \in Avatars : SelectAvatar(a)
  \/ ClearAvatar
  \/ \E v \in TypedInputs : SetInputValue(v)
  \/ handleSendMessage
  \/ \E req \in requests :
       \/ \E d \in Responses(req.n, req) :
            Len(WithPlan(d)) <= MaxPlans /\ handleSendMessageResolved(req, "ok", d)
       \/ \E o \in {"http_error", "throw"} : handleSendMessageResolved(req, o, NoData)
  \/ \E i \in 1..Len(messages) :
       (editedPlan = <<>> => Len(planObjects) < MaxPlans) /\ handleOpenEditPlan(i)
  \/ \E idx \in 1..Len(ProposedPlan.scenes), v \in VideoSubMode : SetSceneMode(idx, v)
  \/ \E idx \in 1..Len(ProposedPlan.scenes), v \in VideoModel : SetSceneModel(idx, v)
  \/ \E idx \in 1..Len(ProposedPlan.scenes), f \in SceneFields :
       \E v \in SceneFieldValues(f) : SetSceneField(idx, f, v)
  \/ CancelEditPlan
  \/ \E i \in 1..Len(messages) : built < MaxBuilds /\ BuildFromMessage(i)
  \/ built < MaxBuilds /\ BuildFromEditor
  \/ \E req \in buildRequests :
       \/ \E d \in BuildResponses(req.n, req) :
            Len(WithPlan(d)) <= MaxPlans /\ handleBuildPlanResolved(req, "ok", d)
       \/ \E o \in {"http_error", "throw"} : handleBuildPlanResolved(req, o, NoData)
  \/ \E a \in Range(AllAssets(messages)) :
       Len(toggles) < MaxToggles /\ handleAddToAssets(a.id)

Next ==
  \/ currentView = "chat" /\ ChatViewNext
  \/ \E view \in {"chat", "assets"} : setCurrentView(view)
  \/ \E i \in 1..Len(toggles), o \in LikeAnswers \cup LikeFailures \cup {"create_failed"} :
       /\ currentView = "assets" => Len(assetFetches) < MaxAssetFetches
       /\ handleAddToAssetsResolved(i, o)
  \/ \E i \in 1..Len(assetFetches) : fetchAssetsServed(i)
  \/ \E i \in 1..Len(assetFetches) :
       \/ /\ assetFetches[i].data # <<>>
          /\ fetchAssetsResolved(i, "ok", assetFetches[i].data[1])
       \/ \E o \in {"http_error", "throw"} : fetchAssetsResolved(i, o, <<>>)
  \/ \E a \in Range(assets) : Len(toggles) < MaxToggles /\ handleToggleLike(a.id)
  \/ \E i \in 1..Len(toggles), o \in LikeAnswers \cup LikeFailures :
       /\ o \in LikeFailures => Len(assetFetches) < MaxAssetFetches
       /\ handleToggleLikeResolved(i, o)
  \/ \E a \in Range(assets) :
       /\ Len(downloadCalls) < MaxDownloadCalls
       /\ a.downloads < MaxDownloads
       /\ handleDownload(a.id)
  \/ \E i \in 1..Len(downloadCalls), o \in {"ok", "http_error", "throw"} :
       handleDownloadResolved(i, o)

Spec == (Init \/ InitGallery) /\ [][Next]_vars


(***************************************************************************)
(* Specifications of the parts of the view.  Each takes the actions of one *)
(* component, from a state the whole view reaches.                         *)
(***************************************************************************)
\* Conversation history alone: the parent switches conversations, fetches resolve
HistoryNext ==
  \/ \E c \in Convs \cup {None} : SwitchChat(c)
  \/ \E i \in 1..Len(fetches), o \in {"ok", "http_error", "throw"} :
       fetchConversationResolved(i, o)
  \/ \E v \in TypedInputs : SetInputValue(v)

SpecHistory == Init /\ [][HistoryNext]_vars

\* the view after conversation cA has been opened and its history loaded
InitLoadedA ==
  /\ chatId = "cA"
  /\ messages = ParseHistory(ServerHistory("cA"))
  /\ sessionCost = ServerSessionCost("cA")
  /\ loading = FALSE
  /\ fetches = <<>>
  /\ mode = "auto"
  /\ videoSubMode = "text_to_video"
  /\ videoParams = [model |-> "veo-3.1-fast-generate-preview",
                    aspect_ratio |-> "16:9", resolution |-> "720p"]
  /\ uploadedImages = <<>>
  /\ extendVideoUri = None
  /\ reads = {}
  /\ nextFile = 1
  /\ inputValue = ""
  /\ isGenerating = FALSE
  /\ currentExecutionPlan = <<>>
  /\ selectedAvatar = None
  /\ sendAvatar = None
  /\ buildAvatar = None
  /\ requests = {}
  /\ issued = 0
  /\ newChatCalls = <<>>
  /\ toast = None
  /\ lastExtend = None
  /\ planObjects = <<>>
  /\ editedPlan = <<>>
  /\ editPlanModalOpen = FALSE
  /\ buildRequests = {}
  /\ built = 0
  /\ serverLog = [c \in Convs |-> <<>>]
  /\ assets = <<>>
  /\ assetsLoading = FALSE
  /\ assetFetches = <<>>
  /\ toggles = <<>>
  /\ downloadCalls = <<>>
  /\ assetsChanged = <<>>
  /\ currentView = "chat"
  /\ serverAssets = ServerCollection
  /\ profileAssets = <<>>
  /\ profileLoading = FALSE
  /\ profileError = None
  /\ retryKey = 0
  /\ loads = <<>>
  /\ profileLikes = <<>>

\* Mode Resolver and Media Staging
StagingNext ==
  \/ \E m \in GenerationMode, s \in VideoSubMode \cup {None} : handleModeChange(m, s)
  \/ \E i \in 1..Len(quickPrompts) : QuickPrompt(i)
  \/ \E u \in ExtendableUris : handleExtendVideo(u)
  \/ \E v \in ModelChoices : SetModel(v)
  \/ \E f \in Selections : nextFile + Len(f) - 1 <= MaxFiles /\ handleFileSelect(f)
  \/ \E r \in reads : ReadLoaded(r)
  \/ \E i \in 1..Len(uploadedImages) : removeUploadedImage(uploadedImages[i].id)

SpecStaging == InitLoadedA /\ [][StagingNext]_vars

\* the answers of a backend that keeps the conversation id of the request
\* and returns a plain message: no asset, plan or session cost
EchoResponses(n, req) ==
  {d \in Responses(n, req) :
     /\ d.conversation_id = req.conversation_id
     /\ d.message.assets = <<>>
     /\ d.execution_plan = <<>>
     /\ d.session_cost = <<>>}

\* the modes selected in the submission specification: text and image
\* are validated and submitted like auto
SubmitModes == {"auto", "video", "plan"}

\* the quick prompt used in the submission specification: the video one
SubmitPrompts == {3}

\* the texts typed in the submission specification
SubmitInputs == {"", "hello"}

\* selections of image files only
ImageSelections == {f \in Selections : \A j \in 1..Len(f) : f[j]}

\* Staging and submission within one conversation, with the model left at
\* its initial value and image files only
SubmitNext ==
  \/ \E m \in SubmitModes, s \in VideoSubMode \cup {None} : handleModeChange(m, s)
  \/ \E i \in SubmitPrompts : QuickPrompt(i)
  \/ \E u \in ExtendableUris : handleExtendVideo(u)
  \/ \E f \in ImageSelections :
       nextFile + Len(f) - 1 <= MaxFiles /\ handleFileSelect(f)
  \/ \E r \in reads : ReadLoaded(r)
  \/ \E i \in 1..Len(uploadedImages) : removeUploadedImage(uploadedImages[i].id)
  \/ \E v \in SubmitInputs : SetInputValue(v)
  \/ handleSendMessage
  \/ \E req \in requests :
       \/ \E d \in EchoResponses(req.n, req) : handleSendMessageResolved(req, "ok", d)
       \/ \E o \in {"http_error", "throw"} : handleSendMessageResolved(req, o, NoData)

SpecSubmit == InitLoadedA /\ [][SubmitNext]_vars

\* the modes selected in the capability specification
PolicyModes == {"auto", "video"}

\* Mode selection, model changes, quick prompts, image staging and submission
\* within one conversation
PolicyNext ==
  \/ \E m \in PolicyModes, s \in VideoSubMode \cup {None} : handleModeChange(m, s)
  \/ \E i \in SubmitPrompts : QuickPrompt(i)
  \/ \E v \in ModelChoices : SetModel(v)
  \/ \E f \in ImageSelections :
       nextFile + Len(f) - 1 <= MaxFiles /\ handleFileSelect(f)
  \/ \E r \in reads : ReadLoaded(r)
  \/ \E v \in SubmitInputs : SetInputValue(v)
  \/ handleSendMessage
  \/ \E req \in requests :
       \/ \E d \in EchoResponses(req.n, req) : handleSendMessageResolved(req, "ok", d)
       \/ \E o \in {"http_error", "throw"} : handleSendMessageResolved(req, o, NoData)

SpecPolicy == Init /\ [][PolicyNext]_vars

\* Media Staging alone: mode menu, image selections, reads, removals
CapacityNext ==
  \/ \E m \in PolicyModes, s \in VideoSubMode \cup {None} : handleModeChange(m, s)
  \/ \E f \in ImageSelections :
       nextFile + Len(f) - 1 <= MaxPicked /\ handleFileSelect(f)
  \/ \E r \in reads : ReadLoaded(r)
  \/ \E i \in 1..Len(uploadedImages) : removeUploadedImage(uploadedImages[i].id)

SpecCapacity == Init /\ [][CapacityNext]_vars

\* Avatar selection next to mode and model changes and submission
AvatarNext ==
  \/ \E m \in GenerationMode, s \in {"text_to_video", None} : handleModeChange(m, s)
  \/ \E v \in ModelChoices : SetModel(v)
  \/ \E a \in Avatars : SelectAvatar(a)
  \/ ClearAvatar
  \/ \E v \in SubmitInputs : SetInputValue(v)
  \/ handleSendMessage
  \/ \E req \in requests :
       \/ \E d \in EchoResponses(req.n, req) : handleSendMessageResolved(req, "ok", d)
       \/ \E o \in {"http_error", "throw"} : handleSendMessageResolved(req, o, NoData)

SpecAvatar == Init /\ [][AvatarNext]_vars

\* the answers to a send that may carry a plan and may name any conversation:
\* no asset and no session cost
PlanResponses(n, req) ==
  {d \in Responses(n, req) : d.message.assets = <<>> /\ d.session_cost = <<>>}

\* the answers to a build without a session cost
BuildOutcomes(k, req) ==
  {d \in BuildResponses(k, req) : d.session_cost = <<>>}

\* the answers to a build that keep the conversation id of the request
BuildEchoes(k, req) ==
  {d \in BuildOutcomes(k, req) : d.conversation_id = req.conversation_id}

\* Conversation identity and plan builds, from a new chat: a send may return
\* a plan, the plan is built from its message; a response may name a
\* conversation, which the parent adopts and the view then re-fetches
IdentityNext ==
  \/ \E v \in SubmitInputs : SetInputValue(v)
  \/ handleSendMessage
  \/ \E req \in requests :
       \/ \E d \in PlanResponses(req.n, req) :
            Len(WithPlan(d)) <= MaxPlans /\ handleSendMessageResolved(req, "ok", d)
       \/ \E o \in {"http_error", "throw"} : handleSendMessageResolved(req, o, NoData)
  \/ \E i \in 1..Len(fetches) :
       \/ /\ Len(planObjects) + Len(PlansOf(ServerEntries(fetches[i]))) <= MaxPlans
          /\ fetchConversationResolved(i, "ok")
       \/ \E o \in {"http_error", "throw"} : fetchConversationResolved(i, o)
  \/ \E i \in 1..Len(messages) : built < MaxBuilds /\ BuildFromMessage(i)
  \/ \E req \in buildRequests :
       \/ \E d \in BuildOutcomes(req.n, req) :
            Len(WithPlan(d)) <= MaxPlans /\ handleBuildPlanResolved(req, "ok", d)
       \/ \E o \in {"http_error", "throw"} : handleBuildPlanResolved(req, o, NoData)

SpecIdentity == Init /\ [][IdentityNext]_vars

\* Conversation identity and plan builds while the parent switches
\* conversations
SwitchNext ==
  \/ IdentityNext
  \/ \E c \in Convs \cup {None} : SwitchChat(c)

SpecSwitch == Init /\ [][SwitchNext]_vars

\* the assets the views show in the like specification
AssetIds == {<<"asA", 1>>, <<"g", 1>>}

\* Likes, in the chat with conversation cA loaded or in the gallery; the
\* gallery receives the answer to a fetch as the backend sends it
AssetsNext ==
  \/ \E id \in AssetIds : Len(toggles) < MaxToggles /\ handleAddToAssets(id)
  \/ \E i \in 1..Len(toggles), o \in LikeAnswers \cup LikeFailures \cup {"create_failed"} :
       /\ currentView = "assets" => Len(assetFetches) < MaxAssetFetches
       /\ handleAddToAssetsResolved(i, o)
  \/ \E i \in 1..Len(assetFetches) :
       \/ fetchAssetsResolved(i, "ok", serverAssets)
       \/ \E o \in {"http_error", "throw"} : fetchAssetsResolved(i, o, <<>>)
  \/ \E id \in AssetIds : Len(toggles) < MaxToggles /\ handleToggleLike(id)
  \/ \E i \in 1..Len(toggles), o \in LikeAnswers \cup LikeFailures :
       /\ o \in LikeFailures => Len(assetFetches) < MaxAssetFetches
       /\ handleToggleLikeResolved(i, o)

SpecAssets == (InitLoadedA \/ InitGallery) /\ [][AssetsNext]_vars

\* the asset the download specification acts on
DownloadIds == {<<"g", 1>>}

\* Downloads and likes in the gallery, answers to fetches received as sent
DownloadsNext ==
  \/ \E i \in 1..Len(assetFetches) :
       \/ fetchAssetsResolved(i, "ok", serverAssets)
       \/ \E o \in {"http_error", "throw"} : fetchAssetsResolved(i, o, <<>>)
  \/ \E id \in DownloadIds : Len(toggles) < MaxToggles /\ handleToggleLike(id)
  \/ \E i \in 1..Len(toggles), o \in LikeAnswers \cup LikeFailures :
       /\ o \in LikeFailures => Len(assetFetches) < MaxAssetFetches
       /\ handleToggleLikeResolved(i, o)
  \/ \E id \in DownloadIds :
       /\ Len(downloadCalls) < MaxDownloadCalls
       /\ DownloadsOf(assets, id) < MaxDownloads
       /\ handleDownload(id)
  \/ \E i \in 1..Len(downloadCalls), o \in {"ok", "http_error", "throw"} :
       handleDownloadResolved(i, o)

SpecDownloads == InitGallery /\ [][DownloadsNext]_vars

\* the asset liked in the independence specification, another one than the
\* asset downloaded
LikeIds == {<<"asA", 1>>}

\* A like on one asset of the gallery next to a download of another
IndependentNext ==
  \/ \E i \in 1..Len(assetFetches) :
       \/ fetchAssetsResolved(i, "ok", serverAssets)
       \/ \E o \in {"http_error", "throw"} : fetchAssetsResolved(i, o, <<>>)
  \/ \E id \in LikeIds : Len(toggles) < MaxToggles /\ handleToggleLike(id)
  \/ \E i \in 1..Len(toggles), o \in LikeAnswers \cup LikeFailures :
       /\ o \in LikeFailures => Len(assetFetches) < MaxAssetFetches
       /\ handleToggleLikeResolved(i, o)
  \/ \E id \in DownloadIds :
       /\ Len(downloadCalls) < MaxDownloadCalls
       /\ DownloadsOf(assets, id) < MaxDownloads
       /\ handleDownload(id)
  \/ \E i \in 1..Len(downloadCalls), o \in {"ok", "http_error", "throw"} :
       handleDownloadResolved(i, o)

SpecIndependent == InitGallery /\ [][IndependentNext]_vars

\* Likes pressed in the chat and answered after the user has gone to the
\* gallery: a like is answered, or fails before the backend has changed
\* anything; the answers to the gallery's fetches take their time and all
\* arrive
SyncNext ==
  \/ \E id \in AssetIds : Len(toggles) < MaxToggles /\ handleAddToAssets(id)
  \/ \E i \in 1..Len(toggles), o \in LikeAnswers \cup {"create_failed"} :
       /\ currentView = "assets" => Len(assetFetches) < MaxAssetFetches
       /\ handleAddToAssetsResolved(i, o)
  \/ \E view \in {"chat", "assets"} : setCurrentView(view)
  \/ \E i \in 1..Len(assetFetches) : fetchAssetsServed(i)
  \/ \E i \in 1..Len(assetFetches) :
       /\ assetFetches[i].data # <<>>
       /\ fetchAssetsResolved(i, "ok", assetFetches[i].data[1])

SpecSync == InitLoadedA /\ [][SyncNext]_vars

\* the backend's store when conversation cA holds a proposed plan
LogWithPlan ==
  [c \in Convs |->
     IF c = "cA"
     THEN StoredExchange("su",
            [n |-> 0, prompt |-> "a film in three scenes"],
            [message |-> ServerMessage(<<"a", 0>>, "assistant", "plan", <<>>),
             execution_plan |-> << ProposedPlan >>,
             scene_results |-> <<>>])
     ELSE <<>>]

\* the view after conversation cA, whose history ends with a proposed plan,
\* has been opened and its history loaded
InitProposed ==
  /\ chatId = "cA"
  /\ serverLog = LogWithPlan
  /\ messages = ParseStored(ServerEntries("cA"), 0)
  /\ planObjects = PlansOf(ServerEntries("cA"))
  /\ sessionCost = ServerSessionCost("cA")
  /\ loading = FALSE
  /\ fetches = <<>>
  /\ mode = "auto"
  /\ videoSubMode = "text_to_video"
  /\ videoParams = [model |-> "veo-3.1-fast-generate-preview",
                    aspect_ratio |-> "16:9", resolution |-> "720p"]
  /\ uploadedImages = <<>>
  /\ extendVideoUri = None
  /\ reads = {}
  /\ nextFile = 1
  /\ inputValue = ""
  /\ isGenerating = FALSE
  /\ currentExecutionPlan = <<>>
  /\ selectedAvatar = None
  /\ sendAvatar = None
  /\ buildAvatar = None
  /\ requests = {}
  /\ issued = 0
  /\ newChatCalls = <<>>
  /\ toast = None
  /\ lastExtend = None
  /\ editedPlan = <<>>
  /\ editPlanModalOpen = FALSE
  /\ buildRequests = {}
  /\ built = 0
  /\ assets = <<>>
  /\ assetsLoading = FALSE
  /\ assetFetches = <<>>
  /\ toggles = <<>>
  /\ downloadCalls = <<>>
  /\ assetsChanged = <<>>
  /\ currentView = "chat"
  /\ serverAssets = ServerCollection
  /\ profileAssets = <<>>
  /\ profileLoading = FALSE
  /\ profileError = None
  /\ retryKey = 0
  /\ loads = <<>>
  /\ profileLikes = <<>>

\* the scenes of the plan under review, by position
EditScenes == 1..Len(ProposedPlan.scenes)

\* the plain field edits of the editor specification: on scene_1, the
\* prompt between two texts, duration and aspect ratio to one new value
FieldEditScenes == {1}

EditedFields == {"prompt", "duration_hint", "aspect_ratio"}

FieldEdits(field) ==
  IF field = "prompt" THEN {"p", "edited"}
  ELSE IF field = "aspect_ratio" THEN {"9:16"}
  ELSE {"8s"}

\* The plan editor alone: review, every mode and model choice, cancel
EditorNext ==
  \/ \E i \in 1..Len(messages) :
       (editedPlan = <<>> => Len(planObjects) < MaxPlans) /\ handleOpenEditPlan(i)
  \/ \E idx \in EditScenes, v \in VideoSubMode : SetSceneMode(idx, v)
  \/ \E idx \in EditScenes, v \in VideoModel : SetSceneModel(idx, v)
  \/ \E idx \in FieldEditScenes, f \in EditedFields :
       \E v \in FieldEdits(f) : SetSceneField(idx, f, v)
  \/ CancelEditPlan

SpecEditor == InitProposed /\ [][EditorNext]_vars

\* the edits made in the build specification: scene_2, between two modes
\* and the models of ModelChoices
BuildEditScenes == {2}

BuildEditModes == {"text_to_video", "frames_to_video"}

\* Review, edit and build of a plan next to the send of a message, within
\* one conversation
BuildNext ==
  \/ \E i \in 1..Len(messages) :
       (editedPlan = <<>> => Len(planObjects) < MaxPlans) /\ handleOpenEditPlan(i)
  \/ \E idx \in BuildEditScenes, v \in BuildEditModes : SetSceneMode(idx, v)
  \/ \E idx \in BuildEditScenes, v \in ModelChoices : SetSceneModel(idx, v)
  \/ CancelEditPlan
  \/ \E i \in 1..Len(messages) : built < MaxBuilds /\ BuildFromMessage(i)
  \/ built < MaxBuilds /\ BuildFromEditor
  \/ \E req \in buildRequests :
       \/ \E d \in BuildEchoes(req.n, req) :
            Len(WithPlan(d)) <= MaxPlans /\ handleBuildPlanResolved(req, "ok", d)
       \/ \E o \in {"http_error", "throw"} : handleBuildPlanResolved(req, o, NoData)
  \/ \E v \in SubmitInputs : SetInputValue(v)
  \/ handleSendMessage
  \/ \E req \in requests :
       \/ \E d \in EchoResponses(req.n, req) : handleSendMessageResolved(req, "ok", d)
       \/ \E o \in {"http_error", "throw"} : handleSendMessageResolved(req, o, NoData)

SpecBuild == InitProposed /\ [][BuildNext]_vars

\* the session cost the backend holds for a conversation whose store is log:
\* accumulated over its assistant messages, one unit each (every answered
\* request stores a user and an assistant message)
SessionTotal(cid, log) ==
  Cost((IF ServerSessionCost(cid) = <<>> THEN 0 ELSE ServerSessionCost(cid)[1].total_cost)
         + Len(log[cid]) \div 2)

\* the session cost field of an answer: absent, or the accumulated cost of
\* the conversation with the answer's message counted
CostFields(req, data) ==
  { <<>>, << SessionTotal(req.conversation_id, Stored("x", req, data)) >> }

\* the answers to a send within the conversation, with the session cost the
\* backend has accumulated or without one
CostedResponses(n, req) ==
  UNION {{[d EXCEPT !.session_cost = c] : c \in CostFields(req, d)} :
           d \in EchoResponses(n, req)}

\* the answers to a build within the conversation, likewise
CostedBuilds(k, req) ==
  UNION {{[d EXCEPT !.session_cost = c] : c \in CostFields(req, d)} :
           d \in BuildEchoes(k, req)}

\* Sends and builds within one conversation, answered with session costs
CostNext ==
  \/ \E v \in SubmitInputs : SetInputValue(v)
  \/ handleSendMessage
  \/ \E req \in requests :
       \/ \E d \in CostedResponses(req.n, req) : handleSendMessageResolved(req, "ok", d)
       \/ \E o \in {"http_error", "throw"} : handleSendMessageResolved(req, o, NoData)
  \/ \E i \in 1..Len(messages) : built < MaxBuilds /\ BuildFromMessage(i)
  \/ \E req \in buildRequests :
       \/ \E d \in CostedBuilds(req.n, req) :
            Len(WithPlan(d)) <= MaxPlans /\ handleBuildPlanResolved(req, "ok", d)
       \/ \E o \in {"http_error", "throw"} : handleBuildPlanResolved(req, o, NoData)

SpecCost == InitProposed /\ [][CostNext]_vars


\* the answers to a send within the conversation that may carry an asset:
\* no plan and no session cost
AssetResponses(n, req) ==
  {d \in Responses(n, req) :
     /\ d.conversation_id = req.conversation_id
     /\ d.execution_plan = <<>>
     /\ d.session_cost = <<>>}

\* the answers to a build within the conversation with every scene built
BuildsAllSucceeded(k, req) ==
  {d \in BuildEchoes(k, req) :
     \A i \in 1..Len(d.scene_results) : d.scene_results[i].success}

\* Sends, builds and likes within one conversation whose history holds an
\* asset and a proposed plan
TranscriptNext ==
  \/ \E v \in SubmitInputs : SetInputValue(v)
  \/ handleSendMessage
  \/ \E req \in requests :
       \/ \E d \in AssetResponses(req.n, req) : handleSendMessageResolved(req, "ok", d)
       \/ handleSendMessageResolved(req, "http_error", NoData)
  \/ \E i \in 1..Len(messages) : built < MaxBuilds /\ BuildFromMessage(i)
  \/ \E req \in buildRequests :
       \/ \E d \in BuildsAllSucceeded(req.n, req) :
            Len(WithPlan(d)) <= MaxPlans /\ handleBuildPlanResolved(req, "ok", d)
       \/ handleBuildPlanResolved(req, "http_error", NoData)
  \/ \E a \in Range(AllAssets(messages)) :
       Len(toggles) < MaxChatLikes /\ handleAddToAssets(a.id)
  \/ \E i \in 1..Len(toggles), o \in {"liked", "unliked", "throw"} :
       handleAddToAssetsResolved(i, o)

SpecTranscript == InitProposed /\ [][TranscriptNext]_vars


\* Review, edits with each kind of control (Mode Select, Model Select, a
\* plain field), and builds from the message or from the editor
StructureNext ==
  \/ \E i \in 1..Len(messages) :
       (editedPlan = <<>> => Len(planObjects) < MaxPlans) /\ handleOpenEditPlan(i)
  \/ \E idx \in BuildEditScenes, v \in BuildEditModes : SetSceneMode(idx, v)
  \/ \E idx \in BuildEditScenes, v \in ModelChoices : SetSceneModel(idx, v)
  \/ \E idx \in FieldEditScenes, f \in EditedFields :
       \E v \in FieldEdits(f) : SetSceneField(idx, f, v)
  \/ CancelEditPlan
  \/ \E i \in 1..Len(messages) : built < MaxBuilds /\ BuildFromMessage(i)
  \/ built < MaxBuilds /\ BuildFromEditor
  \/ \E req \in buildRequests :
       \/ \E d \in BuildsAllSucceeded(req.n, req) :
            Len(WithPlan(d)) <= MaxPlans /\ handleBuildPlanResolved(req, "ok", d)
       \/ handleBuildPlanResolved(req, "http_error", NoData)

SpecStructure == InitProposed /\ [][StructureNext]_vars

\* Avatar selection next to sends and builds, within one conversation whose
\* history holds a proposed plan
ClosureNext ==
  \/ \E a \in Avatars : SelectAvatar(a)
  \/ ClearAvatar
  \/ \E v \in SubmitInputs : SetInputValue(v)
  \/ handleSendMessage
  \/ \E req \in requests :
       \/ \E d \in EchoResponses(req.n, req) : handleSendMessageResolved(req, "ok", d)
       \/ handleSendMessageResolved(req, "http_error", NoData)
  \/ \E i \in 1..Len(messages) : built < MaxBuilds /\ BuildFromMessage(i)
  \/ \E req \in buildRequests :
       \/ \E d \in BuildsAllSucceeded(req.n, req) :
            Len(WithPlan(d)) <= MaxPlans /\ handleBuildPlanResolved(req, "ok", d)
       \/ handleBuildPlanResolved(req, "http_error", NoData)

SpecClosure == InitProposed /\ [][ClosureNext]_vars

\* the hearts pressed in the profile specification
ProfileLikeIds == {<<"asA", 1>>}

\* The profile: its loads, the Retry button and the likes that re-run the
\* load effect, and the navigation that mounts and unmounts the view
ProfileNext ==
  \/ \E view \in {"assets", "profile"} : setCurrentView(view)
  \/ \E n \in 1..Len(loads) : ProfileLoadServed(n)
  \/ \E n \in 1..Len(loads), o \in {"ok", "http_error", "abort"} :
       ProfileLoadResolved(n, o)
  \/ Retry
  \/ \E id \in ProfileLikeIds : ProfileToggleLike(id)
  \/ \E i \in 1..Len(profileLikes), o \in {"liked", "unliked", "throw"} :
       ProfileToggleLikeResolved(i, o)

SpecProfile == Init /\ [][ProfileNext]_vars


(***************************************************************************)
(* Properties.                                                             *)
(***************************************************************************)
\* the requests issued by the step
NewRequests == requests' \ requests

\* the step appends exactly one message of type user to the transcript
UserMessageAppended ==
  /\ Len(messages') = Len(messages) + 1
  /\ SubSeq(messages', 1, Len(messages)) = messages
  /\ messages'[Len(messages')].type = "user"

RejectionToasts == {"Missing frames", "Missing references", "No video to extend"}

\* C1: once no history fetch is outstanding, the transcript shows the
\* active conversation: its history, or nothing when its fetch failed; a
\* fetch of a conversation that is no longer active has not overwritten it.
\* (Stated for runs without submits, as in SpecHistory.)
ActiveConversationShown ==
  (fetches = <<>> /\ chatId # None /\ issued = 0) =>
    messages \in {ParseHistory(ServerHistory(chatId)), <<>>}

\* C2: a user mode selection (mode menu or quick prompt; the Extend action
\* raises its own toast and is not one) that changes the mode leaves staged
\* media empty and the extend target unset.
ModeSelectionClearsMedia ==
  [][(mode' # mode /\ toast' # "Extend Video Mode" /\ toast' # "Generated!")
       => (uploadedImages' = <<>> /\ extendVideoUri' = None)]_vars

\* C3: an image is staged only under the kind of mode it was picked in: the
\* label its selection gave it (frame labels in frames_to_video, reference
\* labels in references_to_video, none elsewhere) fits the mode and sub-mode
\* at the time its read completes and it is appended.
LoadedImageFitsMode ==
  [][(Len(uploadedImages') = Len(uploadedImages) + 1) =>
       LET label == uploadedImages'[Len(uploadedImages')].label IN
       /\ label \in {"Start Frame", "End Frame"}
            <=> (mode = "video" /\ videoSubMode = "frames_to_video")
       /\ label = ""
            <=> ~(mode = "video" /\
                  videoSubMode \in {"frames_to_video", "references_to_video"})]_vars

\* C4: in every state, video mode with a model outside the 3.1 class has
\* neither frames_to_video nor references_to_video as sub-mode; and a step
\* that changes the model to such a model while in video mode with one of
\* these sub-modes sets the sub-mode to text_to_video and empties staged
\* media.
SubModeSupported ==
  (mode = "video" /\ ~isVeo31Model(videoParams.model)) =>
    videoSubMode \notin {"frames_to_video", "references_to_video"}

ModelChangeResetsSubMode ==
  /\ []SubModeSupported
  /\ [][(/\ videoParams'.model # videoParams.model
         /\ ~isVeo31Model(videoParams'.model)
         /\ mode = "video"
         /\ videoSubMode \in {"frames_to_video", "references_to_video"})
        => (videoSubMode' = "text_to_video" /\ uploadedImages' = <<>>)]_vars

\* C4 witness: the reset has just fired with media staged before it
SubModeWasReset ==
  /\ toast = "Mode Changed"
  /\ mode = "video"
  /\ videoSubMode = "text_to_video"
  /\ ~isVeo31Model(videoParams.model)
  /\ uploadedImages = <<>>
  /\ nextFile > 1

\* C5: from a state in video / frames_to_video with a number of staged
\* media other than 2, no step issues a request or appends a user message.
FramesSubmitNeedsTwo ==
  [][(mode = "video" /\ videoSubMode = "frames_to_video" /\ Len(uploadedImages) # 2)
       => (issued' = issued /\ NewRequests = {} /\ ~UserMessageAppended)]_vars

\* C5 witness: a submit with one staged frame has just been rejected
FramesSubmitRejected ==
  /\ toast = "Missing frames"
  /\ Len(uploadedImages) = 1
  /\ requests = {}
  /\ issued = 0

\* C6: a frames_to_video request carries as start frame the file attached
\* first and as end frame the file attached second (files are numbered in
\* attachment order).
FramesInAttachmentOrder ==
  \A r \in requests :
    r.video_mode = "frames_to_video" =>
      /\ Len(r.start_frame) = 1
      /\ Len(r.end_frame) = 1
      /\ r.start_frame[1].data < r.end_frame[1].data

\* C7: from a state in video / references_to_video, no request is issued
\* when nothing is staged, and a request that is issued carries exactly the
\* staged items, in staged order, as reference_images.
ReferencesSubmit ==
  [][(mode = "video" /\ videoSubMode = "references_to_video") =>
       /\ Len(uploadedImages) = 0 => (issued' = issued /\ NewRequests = {})
       /\ \A r \in NewRequests :
            /\ r.video_mode = "references_to_video"
            /\ Len(r.reference_images) = Len(uploadedImages)
            /\ \A i \in 1..Len(uploadedImages) :
                 /\ r.reference_images[i].data = uploadedImages[i].data
                 /\ r.reference_images[i].mime_type = uploadedImages[i].mime_type]_vars

\* C7 witness: a references request with two reference images is outstanding
ReferencesRequestIssued ==
  \E r \in requests :
    r.video_mode = "references_to_video" /\ Len(r.reference_images) = 2

RejectedSubmitChangesNothing ==
  [][(toast' \in RejectionToasts /\ toast' # toast) =>
       UNCHANGED <<convVars, modeVars, mediaVars, genVars, netVars>>]_vars

\* C9 witness: a references submit with typed input has just been rejected
ReferencesSubmitRejected ==
  /\ toast = "Missing references"
  /\ inputValue = "hello"
  /\ ~isGenerating

\* C10: a step issues a send request exactly when it appends one user
\* message to the transcript, and that message carries the request's prompt
\* and number.
EchoWithRequest ==
  [][/\ (issued' # issued) <=> UserMessageAppended
     /\ (issued' # issued) =>
          (/\ issued' = issued + 1
           /\ \E r \in NewRequests :
                /\ NewRequests = {r}
                /\ messages'[Len(messages')].content = r.prompt
                /\ messages'[Len(messages')].id = <<"u", r.n>>)]_vars

\* C10 witness: a request is outstanding and its echo ends the transcript
EchoedRequestOutstanding ==
  \E r \in requests :
    /\ messages[Len(messages)].id = <<"u", r.n>>
    /\ messages[Len(messages)].content = r.prompt
    /\ isGenerating

\* the titles of the notifications a failed generation raises
FailureToasts == {"Generation failed", "Error"}

\* the requests answered by the step
AnsweredRequests == requests \ requests'

NewBuilds == buildRequests' \ buildRequests

AnsweredBuilds == buildRequests \ buildRequests'

\* the number of transcript messages with the given id
CountId(ms, id) == Cardinality({i \in 1..Len(ms) : ms[i].id = id})

\* the assistant messages the backend has stored for conversation cid as
\* replies to generation requests
StoredReplies(cid) ==
  {serverLog[cid][i].message.id : i \in {j \in 1..Len(serverLog[cid]) :
                                           serverLog[cid][j].message.role = "assistant"}}

\* the view shows the conversation the backend named last, and the
\* re-fetch that followed the change of identity is over
MigrationSettled ==
  /\ newChatCalls # <<>>
  /\ chatId = newChatCalls[Len(newChatCalls)]
  /\ fetches = <<>>

\* C14: a response naming another conversation makes one onNewChat call with
\* the backend's id, the requests issued afterwards carry the id the view
\* then has, and once the re-fetch that follows the change of identity is
\* over each reply to a generation request of the conversation is in the
\* transcript exactly once.
IdentityMigratedOnce ==
  [][/\ Len(newChatCalls') <= Len(newChatCalls) + 1
     /\ \A r \in NewRequests \cup NewBuilds : r.conversation_id = chatId
     /\ MigrationSettled' =>
          \A id \in StoredReplies(chatId)' : CountId(messages', id) = 1]_vars

\* C15: at most one generation request, send or build, is in flight, and
\* while one is in flight the view is generating (which is what disables the
\* send button, the Enter key and all three Build buttons).
AtMostOneGeneration ==
  /\ Cardinality(requests) + Cardinality(buildRequests) <= 1
  /\ (requests # {} \/ buildRequests # {}) => isGenerating

\* a build pressed in the editor is in flight while a prompt is typed and a
\* plan message is shown: the send and the Build button of the message are
\* refused
BuildInFlightPromptTyped ==
  /\ \E r \in buildRequests : r.origin = "editor"
  /\ requests = {}
  /\ Trim(inputValue) # ""
  /\ PlanMessages # {}
  /\ isGenerating

\* the plan objects of the Proposed plans in the transcript
ProposedObjects ==
  {messages[i].execution_plan[1] : i \in PlanMessages}

\* C16: whatever is edited, the plan of the message stays the plan that was
\* proposed (so it is after edits and Cancel); every review starts from a
\* copy equal to it in an object of its own, and a build pressed on the
\* message sends it.
EditsLeaveOriginal ==
  [][/\ \A ref \in ProposedObjects' : planObjects'[ref] = ProposedPlan
     /\ (editPlanModalOpen' /\ ~editPlanModalOpen) =>
          /\ planObjects'[editedPlan'[1]] = ProposedPlan
          /\ editedPlan'[1] \notin ProposedObjects'
     /\ \A r \in NewBuilds :
          r.origin = "message" => r.execution_plan = ProposedPlan]_vars

\* the plan was edited in the modal and the modal cancelled: the edited copy
\* differs from the plan of the message, which is as proposed
EditedThenCancelled ==
  /\ ~editPlanModalOpen
  /\ editedPlan # <<>>
  /\ built = 0
  /\ planObjects[editedPlan[1]] # ProposedPlan
  /\ ProposedObjects # {}
  /\ \A ref \in ProposedObjects : planObjects[ref] = ProposedPlan

\* the modes only a 3.1 model supports
Veo31Modes == {"frames_to_video", "references_to_video"}

\* every scene of the plan under edit has a mode its model supports
EditedScenesSupported ==
  editedPlan # <<>> =>
    \A i \in 1..Len(planObjects[editedPlan[1]].scenes) :
      LET sc == planObjects[editedPlan[1]].scenes[i] IN
      sc.mode \in Veo31Modes => isVeo31Model(SceneModel(sc))

\* C17: in the plan editor, a model change to a non-3.1 model on a scene in
\* frames or references mode sets the scene's mode to text_to_video; after
\* every edit each scene has a mode its model supports; an edit changes one
\* scene at most and nothing else of the plan.
SceneEditsKeepSupport ==
  [][/\ EditedScenesSupported'
     /\ (editPlanModalOpen /\ editPlanModalOpen') =>
          LET old == planObjects[editedPlan[1]]
              new == planObjects'[editedPlan[1]]
          IN
          /\ editedPlan' = editedPlan
          /\ Len(new.scenes) = Len(old.scenes)
          /\ Cardinality({i \in 1..Len(old.scenes) : new.scenes[i] # old.scenes[i]}) <= 1
          /\ new.orchestration = old.orchestration
          /\ new.script_hash = old.script_hash
          /\ \A i \in 1..Len(old.scenes) :
               ( /\ SceneModel(new.scenes[i]) # SceneModel(old.scenes[i])
                 /\ ~isVeo31Model(SceneModel(new.scenes[i]))
                 /\ old.scenes[i].mode \in Veo31Modes )
               => new.scenes[i].mode = "text_to_video"]_vars

\* scene_2, proposed in frames mode on a 3.1 model, is on a 3.0 model and in
\* text_to_video mode; scene_1, edited before, and scene_3 are as they were
ModeWasForced ==
  /\ editPlanModalOpen
  /\ LET sc == planObjects[editedPlan[1]].scenes IN
     /\ sc[2] = [ProposedPlan.scenes[2] EXCEPT !.model = "veo-3.0-generate-001",
                                               !.mode = "text_to_video"]
     /\ sc[1] = [ProposedPlan.scenes[1] EXCEPT !.mode = "references_to_video",
                                               !.prompt = "edited"]
     /\ sc[3] = ProposedPlan.scenes[3]

\* the titles of the toasts of a failed build
BuildFailureToasts == {"Plan Execution Failed", "Error"}

\* C18: when a build request fails, a build pressed in the editor is back in
\* the editor, open on the plan that was sent, and a build pressed on the
\* message is back at the Proposed plan of the message, no build in flight.
FailedBuildKeepsPlan ==
  [][\A r \in AnsweredBuilds :
       toast' \in BuildFailureToasts =>
         /\ ~isGenerating'
         /\ IF r.origin = "editor"
            THEN /\ editPlanModalOpen'
                 /\ editedPlan' # <<>>
                 /\ planObjects'[editedPlan'[1]] = r.execution_plan
            ELSE \E ref \in ProposedObjects' : planObjects'[ref] = r.execution_plan]_vars

\* C19: a build the backend has answered with scene outcomes takes the
\* success path whatever the outcomes are; the success path appends exactly
\* one assistant message, whose scene_results are the outcomes of all scenes
\* of the plan in plan order.
BuildMergedWhole ==
  [][\A r \in AnsweredBuilds :
       LET last == messages'[Len(messages')]
           scenes == r.execution_plan.scenes
       IN
       /\ serverLog' # serverLog => toast' = "Plan Executed!"
       /\ toast' \in BuildFailureToasts => messages' = messages
       /\ toast' = "Plan Executed!" =>
            /\ Len(messages') = Len(messages) + 1
            /\ SubSeq(messages', 1, Len(messages)) = messages
            /\ last.type = "assistant"
            /\ last.id = <<"b", r.n>>
            /\ Len(last.scene_results) = Len(scenes)
            /\ \A i \in 1..Len(scenes) : last.scene_results[i].scene_id = scenes[i].id
            /\ \A c \in Convs :
                 serverLog'[c] # serverLog[c] =>
                   last.scene_results = serverLog'[c][Len(serverLog'[c])].scene_results]_vars

\* the plan of three scenes was built, scene_2 failed: the build's message
\* is the last of the transcript with the three outcomes, the failed one
\* between the two successes
BuiltWithFailedScene ==
  /\ toast = "Plan Executed!"
  /\ LET last == messages[Len(messages)] IN
     /\ last.id = <<"b", 1>>
     /\ Len(last.scene_results) = 3
     /\ last.scene_results[1].success
     /\ ~last.scene_results[2].success
     /\ last.scene_results[2].scene_id = "scene_2"
     /\ last.scene_results[3].success

\* the ids of the assets of a list
AssetIdsOf(as) == {as[i].id : i \in 1..Len(as)}

\* C20: when a like is answered with deleted, the asset is in no local list
\* afterwards: neither in the gallery's list nor among the assets of the
\* transcript's messages.
DeletedAssetLeavesLists ==
  [][\A i \in 1..Len(toggles) :
       (toggles' = RemoveAt(toggles, i) /\ toast' = "Removed from Assets") =>
         /\ toggles[i].id \notin AssetIdsOf(assets')
         /\ toggles[i].id \notin AssetIdsOf(AllAssets(messages'))]_vars

\* C21: when the failure handling of a gallery like has completed (the
\* re-fetch of its catch block has resolved, well or not) and nothing else is
\* in flight, the asset's liked flag in the gallery's list is the value it
\* had before the toggle.
FailedLikeRestored ==
  [][\A i \in 1..Len(assetFetches) :
       (/\ assetFetches[i].cause = "rollback"
        /\ assetFetches' = RemoveAt(assetFetches, i)
        /\ Len(assetFetches) = 1
        /\ toggles = <<>>) =>
         \A k \in 1..Len(assets') :
            assets'[k].id = assetFetches[i].id =>
              assets'[k].liked = assetFetches[i].was]_vars

\* the list as holds an asset with this id
Lists(as, id) == \E k \in 1..Len(as) : as[k].id = id

\* C22: a download adds one to the asset's counter at once; when its call
\* succeeds the counter is the server's returned value; when it fails the
\* counter is again the value it had before the download, whatever else
\* (likes, list re-fetches) was pending on the view meanwhile.
DownloadReconciled ==
  [][/\ \A c \in Range(downloadCalls') :
          downloadCalls' = Append(downloadCalls, c) =>
            DownloadsOf(assets', c.id) = c.was + 1
     /\ \A i \in 1..Len(downloadCalls) :
          (downloadCalls' = RemoveAt(downloadCalls, i)
             /\ Lists(assets', downloadCalls[i].id)) =>
            IF toast' = "Error"
            THEN DownloadsOf(assets', downloadCalls[i].id) = downloadCalls[i].was
            ELSE DownloadsOf(assets', downloadCalls[i].id)
                   = DownloadsOf(serverAssets', downloadCalls[i].id)]_vars

\* the mutations a view has in flight: its like calls and, for the gallery,
\* its download calls, each with the asset it acts on
PendingMutations(view) ==
  {<<"like", i, toggles[i].id>> : i \in {k \in 1..Len(toggles) : toggles[k].view = view}}
    \cup (IF view = "assets"
          THEN {<<"download", i, downloadCalls[i].id>> : i \in 1..Len(downloadCalls)}
          ELSE {})

\* C23: mutations are serialized per asset within a view: a view never has
\* two like or download calls in flight against the same asset.
SerializedPerAsset ==
  \A view \in {"chat", "assets"} :
    \A p, q \in PendingMutations(view) : p[3] = q[3] => p = q

\* the titles of the notifications of a like that succeeded
LikeSuccessToasts == {"Removed from Assets", "Added to Assets", "Updated"}

\* C24: the step that completes a successful like or download, in any view,
\* dispatches assets:changed with the asset or, when the backend removed it,
\* with a deletion marker; the step that completes a failed one dispatches
\* nothing.
MutationsBroadcast ==
  [][/\ \A i \in 1..Len(toggles) :
          toggles' = RemoveAt(toggles, i) =>
            IF toast' \in LikeSuccessToasts
            THEN assetsChanged' = << [id |-> toggles[i].id,
                                      deleted |-> toast' = "Removed from Assets"] >>
            ELSE assetsChanged' = <<>>
     /\ \A i \in 1..Len(downloadCalls) :
          downloadCalls' = RemoveAt(downloadCalls, i) =>
            IF toast' # "Error"
            THEN assetsChanged' = << [id |-> downloadCalls[i].id, deleted |-> FALSE] >>
            ELSE assetsChanged' = <<>>]_vars

\* C25: the session cost is reset when the conversation changes: right after
\* the view has switched to another conversation (an existing one or a new
\* chat) the session cost shown is empty or the one the backend holds for the
\* conversation switched to, never the one of the conversation left.
SessionCostResetOnSwitch ==
  [][chatId' # chatId =>
       \/ sessionCost' = <<>>
       \/ chatId' # None /\ sessionCost' = ServerSessionCost(chatId')]_vars

\* session cost a is at most session cost b, in cost and in tokens; an
\* absent cost is below every cost
CostAtMost(a, b) ==
  a # <<>> => /\ b # <<>>
              /\ a[1].total_cost <= b[1].total_cost
              /\ a[1].total_tokens <= b[1].total_tokens

BuildOnlyOnRequest ==
  [][/\ Cardinality(NewBuilds) <= 1
     /\ built' = built + Cardinality(NewBuilds)
     /\ \A r \in NewBuilds :
          /\ requests' = requests
          /\ AnsweredBuilds = {}
          /\ messages' = messages
          /\ ~isGenerating
          /\ IF r.origin = "editor"
             THEN /\ editedPlan # <<>>
                  /\ r.execution_plan = planObjects[editedPlan[1]]
             ELSE \E i \in PlanMessages :
                    r.execution_plan = planObjects[messages[i].execution_plan[1]]]_vars

\* the plan came with the response to a send, was built once on request, the
\* build failed and no other build was issued
FailedBuildNotRetried ==
  /\ issued = 1
  /\ built = 1
  /\ buildRequests = {}
  /\ requests = {}
  /\ toast \in BuildFailureToasts
  /\ PlanMessages # {}

\* the sub-modes that only the 3.1-class models support
Veo31SubModes == {"frames_to_video", "references_to_video"}

\* C28: no generation request carries video_mode frames_to_video or
\* references_to_video together with a model outside the 3.1-class set.
RequestsWithinCapability ==
  \A r \in requests :
    r.video_mode \in Veo31SubModes => isVeo31Model(r.model)

\* a frames-to-video request is in flight under a 3.1-class model the user
\* has switched to
FramesRequestUnderVeo31 ==
  \E r \in requests :
    /\ r.video_mode = "frames_to_video"
    /\ r.model = "veo-3.1-generate-preview"
    /\ r.start_frame # <<>>

\* C29: no video generation request whose model is outside the 3.1-class
\* set carries an avatar id.
AvatarOnlyWithVeo31 ==
  \A r \in requests :
    (r.mode = "video" /\ ~isVeo31Model(r.model)) => r.avatar_id = None

\* the gallery is mounted and nothing is in flight: no fetch, like or download
GalleryQuiet ==
  /\ currentView = "assets"
  /\ assetFetches = <<>>
  /\ toggles = <<>>
  /\ downloadCalls = <<>>

\* C30: an assets:changed event dispatched while the gallery is mounted makes
\* it call fetchAssets, and when fetches succeed and no mutation is left in
\* flight, so that nothing more will happen, the gallery's list is the
\* server's list.
GalleryConverges ==
  [][/\ (assetsChanged' # <<>> /\ currentView = "assets") =>
          /\ Len(assetFetches') = Len(assetFetches) + 1
          /\ assetsLoading'
     /\ GalleryQuiet' => assets' = ParseCollection(serverAssets')]_vars

\* C31: in every state the number of staged media is at most 5 in video /
\* references_to_video and at most 2 in every other mode.
StagedWithinCapacity ==
  Len(uploadedImages) <=
    (IF mode = "video" /\ videoSubMode = "references_to_video" THEN 5 ELSE 2)

\* C32: in frames_to_video, two staged items that were both picked as frames
\* (both carry a frame label) are labelled Start Frame and End Frame, in
\* this order.
FramesLabelledByPosition ==
  (/\ mode = "video"
   /\ videoSubMode = "frames_to_video"
   /\ Len(uploadedImages) = 2
   /\ \A i \in 1..2 : uploadedImages[i].label \in {"Start Frame", "End Frame"})
    => (/\ uploadedImages[1].label = "Start Frame"
        /\ uploadedImages[2].label = "End Frame")

\* the send and build requests the step has answered
AnsweredGenerations == (requests \ requests') \cup (buildRequests \ buildRequests')

\* C33: a step that delivers the response to a send or build request issued
\* under another conversation than the active one leaves the transcript, the
\* session cost and the active conversation as they are.
StaleResponseIgnored ==
  [][\A req \in AnsweredGenerations :
       req.conversation_id # chatId =>
         /\ messages' = messages
         /\ sessionCost' = sessionCost
         /\ chatId' = chatId]_vars

\* the transcript holds the optimistic user message of request number n
Echoed(ms, n) == \E i \in 1..Len(ms) : ms[i].id = <<"u", n>>

\* C34: a step that leaves the active conversation as it is keeps the
\* optimistic user message of every outstanding request that was issued
\* under this conversation.
OptimisticEchoKept ==
  [][chatId' = chatId =>
       \A req \in requests \cap requests' :
         (req.conversation_id = chatId /\ Echoed(messages, req.n))
           => Echoed(messages', req.n)]_vars

\* C35: the generating flag is set only while a send or build request is
\* outstanding, and every step that delivers the response to one, whatever
\* the outcome, leaves the flag false, so that the input accepts a new
\* prompt and the submit guard passes again.
GenerationNeverStuck ==
  /\ [](isGenerating => (requests # {} \/ buildRequests # {}))
  /\ [][AnsweredGenerations # {} => ~isGenerating']_vars

\* C35 witness: the one send has failed (no reply in the transcript), and
\* the user has typed the next prompt, which the input accepts only while
\* nothing is generating
RetypedAfterFailure ==
  /\ issued = 1
  /\ requests = {}
  /\ buildRequests = {}
  /\ ~isGenerating
  /\ Echoed(messages, 1)
  /\ ~\E i \in 1..Len(messages) : messages[i].id = <<"a", 1>>
  /\ inputValue = "hello"

\* message m2 is message m1, except possibly for the liked flag of its
\* assets with the given id
SameButLiked(m1, m2, id) ==
  /\ [m2 EXCEPT !.assets = m1.assets] = m1
  /\ Len(m2.assets) = Len(m1.assets)
  /\ \A j \in 1..Len(m1.assets) :
       /\ [m2.assets[j] EXCEPT !.liked = m1.assets[j].liked] = m1.assets[j]
       /\ m1.assets[j].id # id => m2.assets[j] = m1.assets[j]

\* the asset ids a like answered by the step may be about, None if the step
\* answers no like
AnsweredLikeIds ==
  IF Len(toggles') < Len(toggles)
  THEN {toggles[i].id : i \in 1..Len(toggles)} ELSE {None}

\* C36: every step of a send, a build or a like keeps the messages of the
\* transcript in place and as they are, plan objects included, and appends
\* at the end only; the one exception is the liked flag of the assets with
\* the id of the like the step answers.
MessagesImmutable ==
  [][/\ Len(messages') >= Len(messages)
     /\ \E id \in AnsweredLikeIds :
          \A i \in 1..Len(messages) : SameButLiked(messages[i], messages'[i], id)
     /\ Len(planObjects') >= Len(planObjects)
     /\ \A p \in 1..Len(planObjects) : planObjects'[p] = planObjects[p]]_vars

\* C36 witness: a reply with an asset has been appended and likes have
\* flipped the asset of the history and the asset of the reply, each by
\* its own id
BothAssetsFlipped ==
  /\ Len(messages) >= 4
  /\ \E a \in Range(AllAssets(messages)) : a.id = <<"asA", 1>> /\ ~a.liked
  /\ \E a \in Range(AllAssets(messages)) : a.id = <<"as", 1>> /\ a.liked

\* what the editor must not change: the scene ids in order, the
\* dependencies of each scene, the orchestration groups and the script hash
Structure(plan) ==
  [ids |-> [i \in 1..Len(plan.scenes) |-> plan.scenes[i].id],
   dependencies |-> [i \in 1..Len(plan.scenes) |-> plan.scenes[i].dependencies],
   orchestration |-> plan.orchestration,
   script_hash |-> plan.script_hash]

\* every id referenced in orchestration and in dependencies is a scene's id
ReferencesResolve(plan) ==
  LET ids == {plan.scenes[i].id : i \in 1..Len(plan.scenes)}
      groups == Range(plan.orchestration.parallel_groups) \cup
                Range(plan.orchestration.sequential_chains)
  IN /\ \A g \in groups : Range(g) \subseteq ids
     /\ \A i \in 1..Len(plan.scenes) : Range(plan.scenes[i].dependencies) \subseteq ids

\* C37: the plan under edit and every plan submitted by Build have the
\* structure of the proposed plan, and every id the submitted plan
\* references exists in its scenes.
PlanStructureKept ==
  /\ ReferencesResolve(ProposedPlan)
  /\ editedPlan # <<>> =>
       Structure(planObjects[editedPlan[1]]) = Structure(ProposedPlan)
  /\ \A req \in buildRequests :
       /\ Structure(req.execution_plan) = Structure(ProposedPlan)
       /\ ReferencesResolve(req.execution_plan)

\* C37 witness: a plan that was edited in the editor has been submitted
EditedPlanSubmitted ==
  \E req \in buildRequests :
    /\ req.origin = "editor"
    /\ req.execution_plan # ProposedPlan

\* the mutation is the only one the gallery has in flight against its asset
AloneOnAsset(kind, i, id) ==
  \A p \in PendingMutations("assets") : p[3] = id => p = <<kind, i, id>>

\* C38: a like or download that is the only action in flight on its asset
\* ends as if it had run alone, whatever happens to other assets meanwhile:
\* a failed download leaves the counter the asset showed before it, a
\* successful one the server's counter, a successful like the server's flag.
ActionsIndependent ==
  [][/\ \A i \in 1..Len(downloadCalls) :
          (/\ downloadCalls' = RemoveAt(downloadCalls, i)
           /\ AloneOnAsset("download", i, downloadCalls[i].id)
           /\ Lists(assets', downloadCalls[i].id)) =>
            IF toast' = "Error"
            THEN DownloadsOf(assets', downloadCalls[i].id) = downloadCalls[i].was
            ELSE DownloadsOf(assets', downloadCalls[i].id)
                   = DownloadsOf(serverAssets', downloadCalls[i].id)
     /\ \A i \in 1..Len(toggles) :
          (/\ toggles' = RemoveAt(toggles, i)
           /\ AloneOnAsset("like", i, toggles[i].id)
           /\ toast' \in {"Added to Assets", "Updated"}) =>
            \A k \in 1..Len(assets') :
              assets'[k].id = toggles[i].id =>
                assets'[k].liked = (toast' = "Added to Assets")]_vars

\* C39: the avatar reference of a request is the avatar selected when the
\* request is issued: a send outside text mode and a plan build carry the id
\* of the selected avatar, and none when no avatar is selected.
AvatarOfSubmitTime ==
  [][ /\ \A r \in requests' \ requests :
           r.avatar_id = IF mode # "text" THEN selectedAvatar ELSE None
      /\ \A r \in buildRequests' \ buildRequests :
           r.avatar_id = selectedAvatar ]_vars

\* the n-th run of the load effect ends in this step
LoadEnds(n) == loads[n].outcome = None /\ loads'[n].outcome # None

\* the n-th run has been superseded: a later run has started, or the view
\* is no longer mounted
Superseded(n) == n < Len(loads) \/ currentView # "profile"

\* C40: in the profile view a load that has been superseded, by a later load
\* or by the unmount of the view, writes neither the asset list nor the
\* loading flag when it ends, and the list is only ever set by the end of
\* the load started last.
SupersededLoadSilent ==
  [][ /\ \A n \in 1..Len(loads) :
           (LoadEnds(n) /\ Superseded(n)) =>
             /\ profileAssets' = profileAssets
             /\ profileLoading' = profileLoading
      /\ (profileAssets' # profileAssets /\ currentView = "profile") =>
           LoadEnds(Len(loads)) ]_vars

\* a load answered before a like changed the collection has ended with its
\* answer read after the like's load had started, and the list shown is the
\* one the later load has brought
LateLoadDropped ==
  /\ currentView = "profile"
  /\ \E n \in 1..Len(loads) :
       /\ n < Len(loads)
       /\ loads[n].outcome = "ok" /\ loads[n].late
       /\ loads[Len(loads)].outcome = "ok"
       /\ loads[n].data # loads[Len(loads)].data
       /\ profileAssets = Normalized(loads[Len(loads)].data[1])
  /\ ~profileLoading

============================================================================
